---- MODULE Spec2Model ----
(***************************************************************************)
(* Route extraction engine of watchapi-client: the Next.js path           *)
(* normalizer and file-router helpers, the tRPC procedure scanner and the *)
(* Payload CMS config-object route generators.                            *)
(*                                                                         *)
(* Strings are sequences of atoms.  In the Next.js and tRPC parts every   *)
(* atom is one character, so the regular expressions of the source are    *)
(* modelled position by position.  In the Payload CMS part an atom is     *)
(* either "/" or a word without "/", which is all that template-string    *)
(* concatenation and prefix tests need.                                   *)
(***************************************************************************)
EXTENDS Integers, Sequences, FiniteSets, TLC

VARIABLES
    component,      \* which extractor this run exercises (they share no state)
    \* ---- path normalizer (convertDynamicSegments / extractDynamicSegments)
    routePath,      \* the string handed to the normalizer
    parts,          \* the bracketed/static components routePath was built from
    ntok,           \* number of raw tokens routePath was built from
    npc,            \* "build" | "converted" | "twice"
    converted,      \* convertDynamicSegments(routePath)
    twice,          \* convertDynamicSegments(converted)
    dynSegments,    \* extractDynamicSegments(routePath)
    \* ---- Next.js file router (extractRoutePath and the method detectors)
    rootDir,        \* the project root handed to extractRoutePath
    dirs,           \* directory names from rootDir down to the file
    fileName,       \* base name of the route file, <<>> while none is chosen
    fpc,            \* "path" | "extracted" | "detected"
    detection,      \* RouteDetectionResult of extractRoutePath
    exports,        \* the file's top-level declarations: name -> kind
    handlerText,    \* the Pages Router handler body, statement by statement
    handlers,       \* keys of the Map built by collectHttpMethodHandlers
    methods,        \* list returned by detectPagesRouterMethods
    \* ---- tRPC procedure scanner (parseTRPCRouterFile)
    routerFile,     \* file name of the router file, <<>> while none is chosen
    routerVar,      \* name of the variable the router factory call is bound to
    procedures,     \* the .query(...) / .mutation(...) calls of the file text
    tpc,            \* "text" | "parsed"
    trpcRoutes,     \* routes returned by parseTRPCRouterFile
    httpRoutes,     \* those routes after convertTRPCRouteToHTTP
    \* ---- Payload CMS config-object extractor (parsePayloadConfig)
    config,         \* the config object literal of payload.config.ts
    ppc,            \* "edit" | "parsed" | "reparsed"
    payloadHandlers,\* PayloadRouteHandler list of the last parse
    prevHandlers,   \* the list of the parse before the last edit
    edited,         \* index of the collection whose flag was switched
    project,        \* declaration of each name the config file can use
    \* ---- framework detection (hasTRPC, hasPayloadCMS)
    workspaceFolders, \* undefined, or the package.json found in each folder
    probe,          \* what hasWorkspaceDependency did, when it was called
    dpc,            \* "idle" | "hasTRPC" | "hasPayloadCMS"
    detected,       \* how the detection call settled
    \* ---- extraction entry points (parsePayloadCMSRoutes, parseTRPCRouters)
    world,          \* what the entry point found on disk and in its helpers
    epc,            \* "idle" | "payload" | "trpc"
    settled,        \* how the entry point's promise settled
    \* ---- tRPC router detection (trpc-detection)
    callee,         \* the expression a call expression calls
    detectionConfig,\* the RouterDetectionConfig in force
    rdpc,           \* "build" | "checked"
    isFactoryCall,  \* what isRouterFactoryCall returned
    \* ---- endpoint-id tag of .http documents (watchapi-request-metadata)
    httpText,       \* the document, a sequence of characters
    nLines,         \* how many lines were written to it
    hpc,            \* "edit" | "ensured"
    endpointId,     \* the id handed to ensureEndpointIdInHttpDocument
    ensuredText,    \* what ensureEndpointIdInHttpDocument returned
    roundTrip,      \* extractEndpointIdFromHttpDocument of that
    ensuredAgain,   \* what a second ensureEndpointIdInHttpDocument returned
    \* ---- AuthService
    isRefreshing,   \* AuthService.isRefreshing
    hasShownExpiryNotification,
    jwtToken,       \* secrets[JWT_TOKEN]: "<none>" | "callback" | "refreshed"
    refreshTokenStored, \* whether secrets[REFRESH_TOKEN] is set
    userInfo,       \* whether globalState[USER_INFO] is set
    calls,          \* the activations of refreshAccessToken
    warnings,       \* expiry warnings shown since the last successful refresh
    message,        \* what handleAuthCallback showed last
    \* ---- ApiClient (api/trpc-client)
    requests,       \* the requests that go through the fetch of the link
    \* ---- HttpFileCodeLensProvider
    docLines,       \* the lines of the document, each by what it is
    startIndex,     \* the line extractRequestBlock was called for
    block,          \* the lines of the block it built, by their index
    lpc,            \* "edit" | "extracted"
    \* ---- CacheService
    memoryCache,    \* CacheService.memoryCache: key -> entry or NoEntry
    workspaceState, \* context.workspaceState under the cache prefix
    now,            \* Date.now()
    clearKeys,      \* the keys a running clear() has still to update
    cpc,            \* "idle" | "clearing" | "rejected"
    pending,        \* the keys a running clear() was called to drop
    deleted,        \* the keys deleted or cleared and not set since
    got,            \* the key and the value of the get that returned last
    \* ---- registerFrameworkUploads
    server,         \* the collections the core API holds, by id
    upc,            \* "setup" | "idle" | "pull" | "create" | "repull" |
                    \* "endpoints" | "done"
    target,         \* the target uploadApis was called with
    apis,           \* the list uploadApis was called with
    grouped,        \* uploadApis: grouped, in the order of its keys
    pulledCollections, \* uploadApis: collections, as pulled last
    collectionByName, \* uploadApis: name -> id, 0 without a collection
    missing,        \* uploadApis: the names still to create
    groupIndex,     \* the group the endpoint loop is at
    apiIndex,       \* the api of the group the endpoint loop is at
    existingKeys,   \* uploadApis: existingKeys of that group
    createdEndpoints, \* the createEndpoint calls of this run
    createdCollections, \* the createCollection calls of this run
    run,            \* how many times the list was uploaded
    firstCreated    \* how many endpoints the first run created

normVars == <<routePath, parts, ntok, npc, converted, twice, dynSegments>>

fileVars == <<rootDir, dirs, fileName, fpc, detection, exports, handlerText,
              handlers, methods>>

trpcVars ==
    <<routerFile, routerVar, procedures, tpc, trpcRoutes, httpRoutes>>

payloadVars ==
    <<config, ppc, payloadHandlers, prevHandlers, edited, project>>

detectVars == <<workspaceFolders, probe, dpc, detected>>

entryVars == <<world, epc, settled>>
routerDetVars == <<callee, detectionConfig, rdpc, isFactoryCall>>
httpVars ==
    <<httpText, nLines, hpc, endpointId, ensuredText, roundTrip, ensuredAgain>>

authVars ==
    <<isRefreshing, hasShownExpiryNotification, jwtToken, refreshTokenStored,
      userInfo, calls, warnings, message>>

clientVars == <<requests>>

lensVars == <<docLines, startIndex, block, lpc>>

cacheVars ==
    <<memoryCache, workspaceState, now, clearKeys, cpc, pending, deleted, got>>

uploadVars ==
    <<server, upc, target, apis, grouped, pulledCollections,
      collectionByName, missing, groupIndex, apiIndex, existingKeys, createdEndpoints,
      createdCollections, run, firstCreated>>

\* the variables of the parsers
parserVars ==
    <<normVars, fileVars, trpcVars, payloadVars, detectVars, entryVars,
      routerDetVars, httpVars>>

\* the variables of the services outside the parsers
moreVars == <<authVars, clientVars, lensVars, cacheVars, uploadVars>>

vars ==
    <<component, normVars, fileVars, trpcVars, payloadVars, detectVars,
      entryVars, routerDetVars, httpVars, moreVars>>

(***************************************************************************)
(* Bounds                                                                  *)
(***************************************************************************)
MaxTokens == 6
MaxSegs == 3
MaxDepth == 3
MaxStatements == 2
MaxProcedures == 3
MaxElements == 3
MaxFolders == 3

(***************************************************************************)
(* String helpers                                                          *)
(***************************************************************************)
NotRun == <<"<not run>">>

\* s has t starting at position i
HasAt(s, i, t) ==
    /\ i >= 1
    /\ i + Len(t) - 1 <= Len(s)
    /\ \A k \in 1..Len(t) : s[i + k - 1] = t[k]

StartsWith(s, t) == HasAt(s, 1, t)

EndsWith(s, t) == Len(t) <= Len(s) /\ HasAt(s, Len(s) - Len(t) + 1, t)

Includes(s, t) == \E i \in 1..(Len(s) + 1) : HasAt(s, i, t)

DropFirst(s, n) == SubSeq(s, n + 1, Len(s))

DropLast(s, n) == SubSeq(s, 1, Len(s) - n)

RECURSIVE Concat(_)
Concat(ss) == IF ss = <<>> THEN <<>> ELSE Head(ss) \o Concat(Tail(ss))

(***************************************************************************)
(* nextjs-constants.ts: the three bracket patterns.  Each is                *)
(*   <open> ([^\]]+) <close>                                                *)
(* with a literal opening and closing text around a greedy, non-empty run  *)
(* of characters other than "]".                                           *)
(***************************************************************************)
DYNAMIC_SEGMENT_REGEX == [open |-> <<"[">>, close |-> <<"]">>]
CATCH_ALL_REGEX == [open |-> <<"[", ".", ".", ".">>, close |-> <<"]">>]
OPTIONAL_CATCH_ALL_REGEX ==
    [open |-> <<"[", "[", ".", ".", ".">>, close |-> <<"]", "]">>]

\* position of the first "]" of s at or after position k, 0 if there is none
FirstClose(s, k) ==
    IF \E j \in k..Len(s) : s[j] = "]"
    THEN CHOOSE j \in k..Len(s) :
            s[j] = "]" /\ \A m \in k..(j - 1) : s[m] # "]"
    ELSE 0

\* The greedy run stops at the first "]" (or at the end of the string), and
\* no shorter run can be followed by "]", so a match at i is decided by the
\* first "]" after the opening text alone.
\* Returns the last position of the match that starts at i, 0 if none.
MatchEndAt(s, i, re) ==
    IF ~HasAt(s, i, re.open) THEN 0
    ELSE LET k == i + Len(re.open)
             j == FirstClose(s, k)
         IN IF j > k /\ HasAt(s, j, re.close) THEN j + Len(re.close) - 1
            ELSE 0

\* capture group 1 of the match of re that starts at i
Group1(s, i, re) ==
    SubSeq(s, i + Len(re.open), FirstClose(s, i + Len(re.open)) - 1)

\* RegExp.prototype.test without the g flag: is there a match anywhere
RegexTest(s, re) == \E i \in 1..Len(s) : MatchEndAt(s, i, re) > 0

\* String.prototype.match without the g flag: start of the leftmost match
FirstMatchStart(s, re) ==
    CHOOSE i \in 1..Len(s) :
        /\ MatchEndAt(s, i, re) > 0
        /\ \A m \in 1..(i - 1) : MatchEndAt(s, m, re) = 0

\* s.replace(/re/g, ':$1' + tail): leftmost matches, left to right, the
\* scan resuming after each match; replacement text is not rescanned
RECURSIVE ReplaceFrom(_, _, _, _)
ReplaceFrom(s, i, re, tail) ==
    IF i > Len(s) THEN <<>>
    ELSE LET e == MatchEndAt(s, i, re)
         IN IF e > 0
            THEN <<":">> \o Group1(s, i, re) \o tail
                    \o ReplaceFrom(s, e + 1, re, tail)
            ELSE <<s[i]>> \o ReplaceFrom(s, i + 1, re, tail)

ReplaceAll(s, re, tail) == ReplaceFrom(s, 1, re, tail)

\* s.matchAll(/re/g): the start positions of the successive matches
RECURSIVE MatchAllFrom(_, _, _)
MatchAllFrom(s, i, re) ==
    IF i > Len(s) THEN <<>>
    ELSE LET e == MatchEndAt(s, i, re)
         IN IF e > 0 THEN <<i>> \o MatchAllFrom(s, e + 1, re)
            ELSE MatchAllFrom(s, i + 1, re)

\* s.replace(/re/, ':$1' + tail) without the g flag: the first match only
ReplaceFirst(s, re, tail) ==
    IF RegexTest(s, re)
    THEN LET i == FirstMatchStart(s, re)
         IN SubSeq(s, 1, i - 1) \o <<":">> \o Group1(s, i, re) \o tail
                \o DropFirst(s, MatchEndAt(s, i, re))
    ELSE s

(***************************************************************************)
(* nextjs-utils: convertDynamicSegments                                    *)
(***************************************************************************)
\* slip: the g flag left off the plain-parameter pattern
convertDynamicSegments_FirstOnly(p) ==
    ReplaceFirst(
        ReplaceAll(
            ReplaceAll(p, OPTIONAL_CATCH_ALL_REGEX, <<"*", "?">>),
            CATCH_ALL_REGEX, <<"*">>),
        DYNAMIC_SEGMENT_REGEX, <<>>)

\* slip: the plain-parameter pattern applied before the catch-all patterns
convertDynamicSegments_PlainFirst(p) ==
    ReplaceAll(
        ReplaceAll(
            ReplaceAll(p, DYNAMIC_SEGMENT_REGEX, <<>>),
            OPTIONAL_CATCH_ALL_REGEX, <<"*", "?">>),
        CATCH_ALL_REGEX, <<"*">>)

convertDynamicSegments(p) ==
    ReplaceAll(
        ReplaceAll(
            ReplaceAll(p, OPTIONAL_CATCH_ALL_REGEX, <<"*", "?">>),
            CATCH_ALL_REGEX, <<"*">>),
        DYNAMIC_SEGMENT_REGEX, <<>>)

(***************************************************************************)
(* nextjs-utils: extractDynamicSegments                                    *)
(***************************************************************************)
\* the DynamicSegment pushed for the match of DYNAMIC_SEGMENT_REGEX at i
SegmentOfMatch(p, i) ==
    LET fullMatch == SubSeq(p, i, MatchEndAt(p, i, DYNAMIC_SEGMENT_REGEX))
        paramName == Group1(p, i, DYNAMIC_SEGMENT_REGEX)
    IN IF RegexTest(fullMatch, OPTIONAL_CATCH_ALL_REGEX)
       THEN [name |-> Group1(fullMatch,
                             FirstMatchStart(fullMatch,
                                             OPTIONAL_CATCH_ALL_REGEX),
                             OPTIONAL_CATCH_ALL_REGEX),
             isCatchAll |-> TRUE, isOptional |-> TRUE]
       ELSE IF RegexTest(fullMatch, CATCH_ALL_REGEX)
       THEN [name |-> Group1(fullMatch,
                             FirstMatchStart(fullMatch, CATCH_ALL_REGEX),
                             CATCH_ALL_REGEX),
             isCatchAll |-> TRUE, isOptional |-> FALSE]
       ELSE [name |-> paramName, isCatchAll |-> FALSE, isOptional |-> FALSE]

extractDynamicSegments(p) ==
    LET starts == MatchAllFrom(p, 1, DYNAMIC_SEGMENT_REGEX)
    IN [n \in 1..Len(starts) |-> SegmentOfMatch(p, starts[n])]

(***************************************************************************)
(* Inputs of the normalizer                                                *)
(***************************************************************************)
\* raw material: any mix of brackets, dots, slashes and a name character
Tokens == {<<"[">>, <<"]">>, <<".", ".", ".">>, <<"/">>, <<"a">>}

\* well-formed components: static text and the three bracketed forms
Names == {<<"a">>, <<"i", "d">>}
Kinds == {"static", "param", "catchAll", "optCatchAll"}

RenderPart(c) ==
    CASE c.kind = "static" -> c.name
      [] c.kind = "param" -> <<"[">> \o c.name \o <<"]">>
      [] c.kind = "catchAll" -> <<"[", ".", ".", ".">> \o c.name \o <<"]">>
      [] c.kind = "optCatchAll" ->
            <<"[", "[", ".", ".", ".">> \o c.name \o <<"]", "]">>

RenderPath(cs) == Concat([n \in 1..Len(cs) |-> <<"/">> \o RenderPart(cs[n])])

NormInit ==
    /\ routePath = <<>>
    /\ parts = <<>>
    /\ ntok = 0
    /\ npc = "build"
    /\ converted = NotRun
    /\ twice = NotRun
    /\ dynSegments = NotRun

NormFrame == UNCHANGED <<fileVars, trpcVars, payloadVars, detectVars,
                         entryVars, routerDetVars, httpVars, moreVars>>

\* the caller grows the path string by one raw token
AppendToken(t) ==
    /\ component \in {"none", "normalizer"}
    /\ npc = "build"
    /\ parts = <<>>
    /\ ntok < MaxTokens
    /\ component' = "normalizer"
    /\ routePath' = routePath \o t
    /\ ntok' = ntok + 1
    /\ UNCHANGED <<parts, npc, converted, twice, dynSegments>>
    /\ NormFrame

\* the caller grows the path by one well-formed component
AppendPart(kind, name) ==
    /\ component \in {"none", "normalizer"}
    /\ npc = "build"
    /\ ntok = 0
    /\ Len(parts) < MaxSegs
    /\ component' = "normalizer"
    /\ parts' = Append(parts, [kind |-> kind, name |-> name])
    /\ routePath' = RenderPath(parts')
    /\ UNCHANGED <<ntok, npc, converted, twice, dynSegments>>
    /\ NormFrame

\* extractRoutePath lines 75-79: both normalizer functions on the raw path
NormalizePath ==
    /\ component = "normalizer"
    /\ npc = "build"
    /\ dynSegments' = extractDynamicSegments(routePath)
    /\ converted' = convertDynamicSegments(routePath)
    /\ npc' = "converted"
    /\ UNCHANGED <<component, routePath, parts, ntok, twice>>
    /\ NormFrame

\* the normalizer applied to its own output
NormalizeAgain ==
    /\ component = "normalizer"
    /\ npc = "converted"
    /\ twice' = convertDynamicSegments(converted)
    /\ npc' = "twice"
    /\ UNCHANGED <<component, routePath, parts, ntok, converted, dynSegments>>
    /\ NormFrame

NextNormalizer ==
    \/ \E t \in Tokens : AppendToken(t)
    \/ \E k \in Kinds, n \in Names : AppendPart(k, n)
    \/ NormalizePath
    \/ NormalizeAgain


(***************************************************************************)
(* Next.js file router                                                     *)
(***************************************************************************)
S_src == <<"s", "r", "c">>
S_app == <<"a", "p", "p">>
S_pages == <<"p", "a", "g", "e", "s">>
S_api == <<"a", "p", "i">>
S_users == <<"u", "s", "e", "r", "s">>
S_web == <<"w", "e", "b">>
S_idParam == <<"[", "i", "d", "]">>
S_route_ts == <<"r", "o", "u", "t", "e", ".", "t", "s">>
S_route_js == <<"r", "o", "u", "t", "e", ".", "j", "s">>
S_index_ts == <<"i", "n", "d", "e", "x", ".", "t", "s">>
S_orders_ts == <<"o", "r", "d", "e", "r", "s", ".", "t", "s">>

DirNames == {S_src, S_app, S_pages, S_api, S_users, S_web, S_idParam}
FileNames == {S_route_ts, S_route_js, S_index_ts, S_orders_ts}
RootDirs == {<<"/", "w">>, <<"/", "a", "p", "p", "/", "w">>}

\* nextjs-constants.ts
APP_ROUTER_METHODS ==
    <<"GET", "POST", "PUT", "PATCH", "DELETE", "HEAD", "OPTIONS">>

Range(f) == {f[x] : x \in DOMAIN f}

\* the components joined by "/"
RECURSIVE JoinSlash(_)
JoinSlash(cs) ==
    IF cs = <<>> THEN <<>>
    ELSE IF Len(cs) = 1 THEN cs[1]
    ELSE cs[1] \o <<"/">> \o JoinSlash(Tail(cs))

\* the absolute path of the file below root
FilePath(root, ds, f) == root \o <<"/">> \o JoinSlash(Append(ds, f))

\* path.relative(rootDir, filePath) for a file below rootDir
RelativePath(root, fp) == DropFirst(fp, Len(root) + 1)

\* && binds tighter than ||
isAppRouterFile(fp) ==
    \/ /\ Includes(fp, <<"/">> \o S_app \o <<"/">>)
       /\ EndsWith(fp, <<"/">> \o S_route_ts)
    \/ EndsWith(fp, <<"/">> \o S_route_js)

isPagesRouterFile(fp) ==
    /\ Includes(fp, <<"/">> \o S_pages \o <<"/">> \o S_api \o <<"/">>)
    /\ ~EndsWith(fp, <<"/">> \o S_route_ts)
    /\ ~EndsWith(fp, <<"/">> \o S_route_js)

\* s.replace(/^(src\/)?<dir>/, '')
StripRootDir(s, dir) ==
    IF StartsWith(s, S_src \o <<"/">> \o dir)
    THEN DropFirst(s, Len(S_src) + 1 + Len(dir))
    ELSE IF StartsWith(s, dir) THEN DropFirst(s, Len(dir))
    ELSE s

\* s.replace(/<prefix>(ts|js)$/, '')
StripTsJs(s, prefix) ==
    IF \/ EndsWith(s, prefix \o <<"t", "s">>)
       \/ EndsWith(s, prefix \o <<"j", "s">>)
    THEN DropLast(s, Len(prefix) + 2)
    ELSE s

StripSuffix(s, t) == IF EndsWith(s, t) THEN DropLast(s, Len(t)) ELSE s

StripPrefix(s, t) == IF StartsWith(s, t) THEN DropFirst(s, Len(t)) ELSE s

\* extractRoutePath lines 48-61
AppRoutePath(rel) ==
    LET stripped ==
            StripPrefix(
                StripTsJs(StripRootDir(rel, S_app),
                          <<"/", "r", "o", "u", "t", "e", ".">>),
                <<"/">>)
    IN IF ~StartsWith(stripped, S_api \o <<"/">>) /\ stripped # <<>>
       THEN stripped
       ELSE <<"/">> \o stripped

\* extractRoutePath lines 62-73
PagesRoutePath(rel) ==
    LET stripped ==
            StripSuffix(StripTsJs(StripRootDir(rel, S_pages), <<".">>),
                        <<"/", "i", "n", "d", "e", "x">>)
    IN IF stripped = <<>> THEN <<"/">> ELSE stripped

extractRoutePath(fp, root) ==
    LET relativePath == RelativePath(root, fp)
        isApp == isAppRouterFile(fp)
        isPages == ~isApp /\ isPagesRouterFile(fp)
        raw == IF isApp THEN AppRoutePath(relativePath)
               ELSE IF isPages THEN PagesRoutePath(relativePath)
               ELSE <<>>
    IN [isAppRouter |-> isApp,
        isPagesRouter |-> isPages,
        routePath |-> convertDynamicSegments(raw),
        dynamicSegments |-> extractDynamicSegments(raw)]

\* Kinds of top-level declaration a route file can hold under one name
DeclKinds == {"exportedFunction", "localFunction", "exportedArrow",
              "exportedValue"}
ExportNames == {"GET", "DELETE", "helper"}

IsVerb(name) == name \in Range(APP_ROUTER_METHODS)

\* collectHttpMethodHandlers: the three passes write into one Map
collectHttpMethodHandlers(ex) ==
    LET pass1 == {n \in DOMAIN ex : ex[n] = "exportedFunction" /\ IsVerb(n)}
        pass2 == {n \in DOMAIN ex : IsVerb(n) /\ ex[n] = "exportedArrow"}
        pass3 == {n \in DOMAIN ex :
                    /\ IsVerb(n)
                    /\ ex[n] \in {"exportedFunction", "exportedArrow",
                                  "exportedValue"}}
    IN pass1 \cup pass2 \cup pass3

\* A statement of the handler body, as the two patterns see it
StatementKinds == {"eq", "case", "looseEq"}
StatementVerbs == {"GET", "POST"}
Statements == [kind : StatementKinds, verb : StatementVerbs]

\* the verbs captured by one pattern, in text order
RECURSIVE MatchesOfKind(_, _)
MatchesOfKind(text, kind) ==
    IF text = <<>> THEN <<>>
    ELSE (IF Head(text).kind = kind THEN <<Head(text).verb>> ELSE <<>>)
            \o MatchesOfKind(Tail(text), kind)

\* push every verb of ms that acc does not include yet
RECURSIVE PushNew(_, _)
PushNew(acc, ms) ==
    IF ms = <<>> THEN acc
    ELSE PushNew(IF Head(ms) \in Range(acc) THEN acc
                 ELSE Append(acc, Head(ms)),
                 Tail(ms))

detectPagesRouterMethods(text) ==
    LET found == PushNew(PushNew(<<>>, MatchesOfKind(text, "eq")),
                         MatchesOfKind(text, "case"))
    IN IF Len(found) = 0 THEN <<"GET">> ELSE found

NoExports == [n \in {} |-> "none"]

FileInit ==
    /\ rootDir = <<"/", "w">>
    /\ dirs = <<>>
    /\ fileName = <<>>
    /\ fpc = "path"
    /\ detection = NotRun
    /\ exports = NoExports
    /\ handlerText = <<>>
    /\ handlers = {}
    /\ methods = <<>>

FileFrame == UNCHANGED <<normVars, trpcVars, payloadVars, detectVars,
                         entryVars, routerDetVars, httpVars, moreVars>>

\* the scan hands over a project rooted somewhere else
ChooseRoot(root) ==
    /\ component = "none"
    /\ component' = "fileRouter"
    /\ rootDir' = root
    /\ UNCHANGED <<dirs, fileName, fpc, detection, exports, handlerText,
                   handlers, methods>>
    /\ FileFrame

\* the scan descends one directory
EnterDir(d) ==
    /\ component \in {"none", "fileRouter"}
    /\ fpc = "path"
    /\ fileName = <<>>
    /\ Len(dirs) < MaxDepth
    /\ component' = "fileRouter"
    /\ dirs' = Append(dirs, d)
    /\ UNCHANGED <<rootDir, fileName, fpc, detection, exports, handlerText,
                   handlers, methods>>
    /\ FileFrame

\* the scan finds a source file and extractRoutePath runs on it
ExtractRoutePath(f) ==
    /\ component = "fileRouter"
    /\ fpc = "path"
    /\ dirs # <<>>
    /\ fileName' = f
    /\ detection' = extractRoutePath(FilePath(rootDir, dirs, f), rootDir)
    /\ fpc' = "extracted"
    /\ UNCHANGED <<component, rootDir, dirs, exports, handlerText, handlers,
                   methods>>
    /\ FileFrame

\* App Router file: the exported verb handlers are collected
CollectHandlers(ex) ==
    /\ component = "fileRouter"
    /\ fpc = "extracted"
    /\ detection.isAppRouter
    /\ exports' = ex
    /\ handlers' = collectHttpMethodHandlers(ex)
    /\ fpc' = "detected"
    /\ UNCHANGED <<component, rootDir, dirs, fileName, detection,
                   handlerText, methods>>
    /\ FileFrame

\* Pages Router file: the handler text is scanned for verbs
DetectMethods(text) ==
    /\ component = "fileRouter"
    /\ fpc = "extracted"
    /\ detection.isPagesRouter
    /\ handlerText' = text
    /\ methods' = detectPagesRouterMethods(text)
    /\ fpc' = "detected"
    /\ UNCHANGED <<component, rootDir, dirs, fileName, detection, exports,
                   handlers>>
    /\ FileFrame

ExportSets == UNION {[ns -> DeclKinds] : ns \in SUBSET ExportNames}
HandlerTexts == UNION {[1..n -> Statements] : n \in 0..MaxStatements}

NextFileRouter ==
    \/ \E r \in RootDirs : ChooseRoot(r)
    \/ \E d \in DirNames : EnterDir(d)
    \/ \E f \in FileNames : ExtractRoutePath(f)
    \/ \E ex \in ExportSets : CollectHandlers(ex)
    \/ \E text \in HandlerTexts : DetectMethods(text)

(***************************************************************************)
(* tRPC: normalizeRouterName (trpc-detection) and parseTRPCRouterFile      *)
(***************************************************************************)
UpperLetters == <<"A", "B", "C", "D", "E", "F", "G", "H", "I", "J", "K", "L",
                  "M", "N", "O", "P", "Q", "R", "S", "T", "U", "V", "W", "X",
                  "Y", "Z">>
LowerLetters == <<"a", "b", "c", "d", "e", "f", "g", "h", "i", "j", "k", "l",
                  "m", "n", "o", "p", "q", "r", "s", "t", "u", "v", "w", "x",
                  "y", "z">>

IndexIn(letters, ch) == CHOOSE k \in 1..Len(letters) : letters[k] = ch

ToLower(ch) ==
    IF ch \in Range(UpperLetters) THEN LowerLetters[IndexIn(UpperLetters, ch)]
    ELSE ch

ToUpper(ch) ==
    IF ch \in Range(LowerLetters) THEN UpperLetters[IndexIn(LowerLetters, ch)]
    ELSE ch

LowerCase(s) == [k \in 1..Len(s) |-> ToLower(s[k])]

\* \w
IsWordChar(ch) ==
    ch \in Range(UpperLetters) \cup Range(LowerLetters) \cup {"_"}
        \cup {"0", "1", "2", "3", "4", "5", "6", "7", "8", "9"}

\* [.\-_]
IsSeparator(ch) == ch \in {".", "-", "_"}

\* s.replace(/<t>$/i, "")
StripSuffixI(s, t) ==
    IF EndsWith(LowerCase(s), LowerCase(t)) THEN DropLast(s, Len(t)) ELSE s

\* s.replace(/^<t>/i, "")
StripPrefixI(s, t) ==
    IF StartsWith(LowerCase(s), LowerCase(t)) THEN DropFirst(s, Len(t))
    ELSE s

\* s.replace(/^(create|build|make|use)/i, ""): the first alternative that
\* matches at the start
StripFactoryPrefix(s) ==
    LET alts == << <<"c", "r", "e", "a", "t", "e">>, <<"b", "u", "i", "l", "d">>,
                   <<"m", "a", "k", "e">>, <<"u", "s", "e">> >>
        hits == {k \in 1..Len(alts) : StartsWith(LowerCase(s), alts[k])}
    IN IF hits = {} THEN s
       ELSE DropFirst(s, Len(alts[CHOOSE k \in hits : \A m \in hits : k <= m]))

\* end of the match of /[.\-_]+(\w)/ that starts at i, 0 if none: the
\* longest separator run that is followed by a word character
CamelMatchEnd(s, i) ==
    LET ends == {e \in (i + 1)..Len(s) :
                    /\ \A k \in i..(e - 1) : IsSeparator(s[k])
                    /\ IsWordChar(s[e])}
    IN IF i <= Len(s) /\ IsSeparator(s[i]) /\ ends # {}
       THEN CHOOSE e \in ends : \A m \in ends : m <= e
       ELSE 0

\* s.replace(/[.\-_]+(\w)/g, (_m, char) => char.toUpperCase())
RECURSIVE CamelFrom(_, _)
CamelFrom(s, i) ==
    IF i > Len(s) THEN <<>>
    ELSE LET e == CamelMatchEnd(s, i)
         IN IF e > 0 THEN <<ToUpper(s[e])>> \o CamelFrom(s, e + 1)
            ELSE <<s[i]>> \o CamelFrom(s, i + 1)

S_router == <<"r", "o", "u", "t", "e", "r">>

normalizeRouterName(value) ==
    LET dotted == IF EndsWith(LowerCase(value), <<".">> \o S_router)
                  THEN DropLast(value, 7)
                  ELSE StripSuffixI(value, <<".", "t", "r", "p", "c">>)
        cleaned == StripSuffixI(
                       StripSuffixI(StripFactoryPrefix(dotted), S_router),
                       S_router)
        stripped == CamelFrom(cleaned, 1)
    IN IF stripped = <<>> THEN <<>>
       ELSE <<ToLower(stripped[1])>> \o Tail(stripped)

\* position of the last "." of s, 0 if none
LastDot(s) ==
    IF \E k \in 1..Len(s) : s[k] = "."
    THEN CHOOSE k \in 1..Len(s) :
            s[k] = "." /\ \A m \in (k + 1)..Len(s) : s[m] # "."
    ELSE 0

\* path.basename(p, path.extname(p)) of a bare file name
BaseNameNoExt(f) == IF LastDot(f) > 1 THEN SubSeq(f, 1, LastDot(f) - 1) ELSE f

S_apiTrpc == <<"/", "a", "p", "i", "/", "t", "r", "p", "c", "/">>

\* the routes pushed by one of the two while loops
RECURSIVE RoutesOfKind(_, _, _, _)
RoutesOfKind(procs, kind, method, routerName) ==
    IF procs = <<>> THEN <<>>
    ELSE (IF Head(procs).kind = kind
          THEN <<[method |-> method,
                  path |-> S_apiTrpc \o routerName \o <<".">>
                                \o Head(procs).name]>>
          ELSE <<>>)
         \o RoutesOfKind(Tail(procs), kind, method, routerName)

parseTRPCRouterFile(f, procs) ==
    LET routerName == StripSuffix(BaseNameNoExt(f), <<".">> \o S_router)
    IN RoutesOfKind(procs, "query", "GET", routerName)
        \o RoutesOfKind(procs, "mutation", "POST", routerName)

\* convertTRPCRouteToHTTP
convertTRPCRouteToHTTP(route) ==
    [route EXCEPT !.method =
        IF Includes(route.path, <<"q", "u", "e", "r", "y">>) THEN "GET"
        ELSE "POST"]

\* files found by FILE_PATTERNS.TRPC_ROUTERS, "**/*.router.{ts,js}"
RouterFiles == {<<"a", "p", "p", ".", "r", "o", "u", "t", "e", "r", ".", "t", "s">>,
                <<"u", "s", "e", "r", ".", "r", "o", "u", "t", "e", "r", ".", "j", "s">>}
RouterVars == {<<"a", "p", "p", "R", "o", "u", "t", "e", "r">>,
               <<"u", "s", "e", "r", "_", "r", "o", "u", "t", "e", "r">>}
ProcedureNames ==
    {<<"l", "i", "s", "t">>, <<"c", "r", "e", "a", "t", "e">>,
     <<"q", "u", "e", "r", "y", "A", "l", "l">>}
\* "query" and "mutation" calls with a string literal first argument, and
\* "input" for any other call of the chain
ProcedureKinds == {"query", "mutation", "input"}

TrpcInit ==
    /\ routerFile = <<>>
    /\ routerVar = <<>>
    /\ procedures = <<>>
    /\ tpc = "text"
    /\ trpcRoutes = <<>>
    /\ httpRoutes = <<>>

TrpcFrame == UNCHANGED <<normVars, fileVars, payloadVars, detectVars,
                         entryVars, routerDetVars, httpVars, moreVars>>

\* a router file is found: const <v> = createRouter()...
OpenRouterFile(f, v) ==
    /\ component = "none"
    /\ component' = "trpc"
    /\ routerFile' = f
    /\ routerVar' = v
    /\ UNCHANGED <<procedures, tpc, trpcRoutes, httpRoutes>>
    /\ TrpcFrame

\* its text goes on with one more call of the builder chain
AddProcedure(kind, name) ==
    /\ component = "trpc"
    /\ tpc = "text"
    /\ Len(procedures) < MaxProcedures
    /\ procedures' = Append(procedures, [kind |-> kind, name |-> name])
    /\ UNCHANGED <<component, routerFile, routerVar, tpc, trpcRoutes,
                   httpRoutes>>
    /\ TrpcFrame

ParseTRPCRouterFile ==
    /\ component = "trpc"
    /\ tpc = "text"
    /\ trpcRoutes' = parseTRPCRouterFile(routerFile, procedures)
    /\ tpc' = "parsed"
    /\ UNCHANGED <<component, routerFile, routerVar, procedures, httpRoutes>>
    /\ TrpcFrame

\* every parsed route goes through convertTRPCRouteToHTTP
ConvertTRPCRoutesToHTTP ==
    /\ component = "trpc"
    /\ tpc = "parsed"
    /\ httpRoutes' = [n \in 1..Len(trpcRoutes) |->
                        convertTRPCRouteToHTTP(trpcRoutes[n])]
    /\ tpc' = "converted"
    /\ UNCHANGED <<component, routerFile, routerVar, procedures, trpcRoutes>>
    /\ TrpcFrame

NextTrpc ==
    \/ \E f \in RouterFiles, v \in RouterVars : OpenRouterFile(f, v)
    \/ \E k \in ProcedureKinds, n \in ProcedureNames : AddProcedure(k, n)
    \/ ParseTRPCRouterFile
    \/ ConvertTRPCRoutesToHTTP

(***************************************************************************)
(* Payload CMS: constants (payload-cms-constants)                          *)
(***************************************************************************)
Op(name, method, pathSuffix, hasBody) ==
    [name |-> name, method |-> method, pathSuffix |-> pathSuffix,
     hasBody |-> hasBody]

\* the operation table of packages/parsers/src/payload-cms, which lacks
\* count and the bulk update and delete
COLLECTION_OPERATIONS_FiveOps ==
    << Op("find", <<"GET">>, <<>>, FALSE),
       Op("create", <<"POST">>, <<>>, TRUE),
       Op("findByID", <<"GET">>, <<"/", ":id">>, FALSE),
       Op("update", <<"PATCH">>, <<"/", ":id">>, TRUE),
       Op("delete", <<"DELETE">>, <<"/", ":id">>, FALSE) >>

COLLECTION_OPERATIONS ==
    << Op("find", <<"GET">>, <<>>, FALSE),
       Op("findByID", <<"GET">>, <<"/", ":id">>, FALSE),
       Op("count", <<"GET">>, <<"/", "count">>, FALSE),
       Op("create", <<"POST">>, <<>>, TRUE),
       Op("update", <<"PATCH">>, <<>>, TRUE),
       Op("updateByID", <<"PATCH">>, <<"/", ":id">>, TRUE),
       Op("delete", <<"DELETE">>, <<>>, FALSE),
       Op("deleteByID", <<"DELETE">>, <<"/", ":id">>, FALSE) >>

AUTH_COLLECTION_OPERATIONS ==
    << Op("login", <<"POST">>, <<"/", "login">>, TRUE),
       Op("logout", <<"POST">>, <<"/", "logout">>, FALSE),
       Op("refresh", <<"POST">>, <<"/", "refresh-token">>, FALSE),
       Op("me", <<"GET">>, <<"/", "me">>, FALSE),
       Op("forgotPassword", <<"POST">>, <<"/", "forgot-password">>, TRUE),
       Op("resetPassword", <<"POST">>, <<"/", "reset-password">>, TRUE),
       Op("unlock", <<"POST">>, <<"/", "unlock">>, TRUE),
       Op("verifyEmail", <<"POST">>, <<"/", "verify", "/", ":token">>, FALSE) >>

\* the table of packages/parsers/src/payload-cms, with an upload operation
UPLOAD_COLLECTION_OPERATIONS_UploadFile ==
    << Op("uploadFile", <<"POST">>, <<"/", "file">>, TRUE) >>

UPLOAD_COLLECTION_OPERATIONS == <<>>

DEFAULT_PAYLOAD_ENDPOINTS ==
    << [name |-> "getPreference", method |-> <<"GET">>,
        path |-> <<"/", "payload-preferences", "/", ":key">>,
        hasBody |-> FALSE],
       [name |-> "createPreference", method |-> <<"POST">>,
        path |-> <<"/", "payload-preferences", "/", ":key">>,
        hasBody |-> TRUE],
       [name |-> "deletePreference", method |-> <<"DELETE">>,
        path |-> <<"/", "payload-preferences", "/", ":key">>,
        hasBody |-> FALSE],
       [name |-> "access", method |-> <<"GET">>, path |-> <<"/", "access">>,
        hasBody |-> FALSE] >>

GLOBAL_OPERATIONS ==
    << Op("findOne", <<"GET">>, <<>>, FALSE),
       Op("update", <<"POST">>, <<>>, TRUE) >>

\* the value undefined, where a string is expected
Undefined == <<"<undefined>">>

\* METHOD_MAP[key]: the own keys, then what a plain object inherits
METHOD_MAP(key) ==
    CASE key = <<"g", "e", "t">> -> <<"GET">>
      [] key = <<"p", "o", "s", "t">> -> <<"POST">>
      [] key = <<"p", "u", "t">> -> <<"PUT">>
      [] key = <<"p", "a", "t", "c", "h">> -> <<"PATCH">>
      [] key = <<"d", "e", "l", "e", "t", "e">> -> <<"DELETE">>
      [] key = <<"h", "e", "a", "d">> -> <<"HEAD">>
      [] key = <<"o", "p", "t", "i", "o", "n", "s">> -> <<"OPTIONS">>
      [] key = <<"c", "o", "n", "s", "t", "r", "u", "c", "t", "o", "r">> ->
            <<"<Object.prototype.constructor>">>
      [] OTHER -> Undefined

(***************************************************************************)
(* Payload CMS: reading the config object literal                          *)
(***************************************************************************)
\* a property the object literal does not have
Absent == <<"<absent>">>

\* extractStringProperty: the literal value of a string(-template) property
extractStringProperty(obj, prop) ==
    IF prop \notin DOMAIN obj THEN Undefined
    ELSE IF obj[prop] = Absent THEN Undefined
    ELSE obj[prop]

\* extractBooleanProperty: obj[prop] is the kind of the initializer
extractBooleanProperty(obj, prop) ==
    IF prop \notin DOMAIN obj THEN FALSE
    ELSE CASE obj[prop] = "absent" -> FALSE
           [] obj[prop] = "true" -> TRUE
           [] obj[prop] = "false" -> FALSE
           [] obj[prop] = "object" -> TRUE
           [] OTHER -> FALSE

\* a string is truthy unless undefined or empty
Truthy(v) == v # Undefined /\ v # <<>>

\* symbol.getDeclarations() of an identifier: the declaration the project
\* holds for the name, none when the symbol does not resolve
Declarations(node) ==
    IF node.kind = "identifier" /\ project[node.name].kind # "none"
    THEN <<project[node.name]>>
    ELSE <<>>

\* the first non-null result of a loop that returns on success
RECURSIVE FirstResult(_)
FirstResult(results) ==
    IF results = <<>> THEN <<>>
    ELSE IF Head(results) # <<>> THEN Head(results)
    ELSE FirstResult(Tail(results))

IsObjectLiteral(node) == node.kind = "object"

\* args.length > 0 && Node.isObjectLiteralExpression(args[0])
IsCallOnObjectLiteral(node) ==
    /\ node.kind = "call"
    /\ node.arguments # <<>>
    /\ IsObjectLiteral(node.arguments[1])

\* findObjectLiteralInExpression: <<literal>> or <<>> for null
RECURSIVE findObjectLiteralInExpression(_)
findObjectLiteralInExpression(expr) ==
    CASE IsObjectLiteral(expr) -> <<expr>>
      [] IsCallOnObjectLiteral(expr) -> <<expr.arguments[1]>>
      [] expr.kind \in {"as", "satisfies", "paren"} ->
            findObjectLiteralInExpression(expr.expression)
      [] OTHER -> <<>>

\* parseEndpointObject
parseEndpointObject(obj) ==
    LET path == extractStringProperty(obj, "path")
        method == extractStringProperty(obj, "method")
    IN IF Truthy(path) /\ Truthy(method)
       THEN <<[path |-> path, method |-> method]>>
       ELSE <<>>

\* the exported declaration an import specifier leads to, then its literal
ImportedObjectLiteral(declaration) ==
    IF /\ declaration.module # Undefined
       /\ declaration.exported # <<>>
       /\ declaration.exported[1].kind = "variable"
    THEN findObjectLiteralInExpression(declaration.exported[1].initializer)
    ELSE <<>>

\* resolveEndpointReference
resolveEndpointReference(node) ==
    LET OfDeclaration(declaration) ==
            CASE declaration.kind = "variable" ->
                    LET objLiteral == findObjectLiteralInExpression(
                                            declaration.initializer)
                    IN IF objLiteral # <<>>
                       THEN parseEndpointObject(objLiteral[1])
                       ELSE <<>>
              [] declaration.kind = "importSpecifier" ->
                    LET objLiteral == ImportedObjectLiteral(declaration)
                    IN IF objLiteral # <<>>
                       THEN parseEndpointObject(objLiteral[1])
                       ELSE <<>>
              [] OTHER -> <<>>
        declarations == Declarations(node)
    IN FirstResult([n \in 1..Len(declarations) |->
                        OfDeclaration(declarations[n])])

\* the array literals a spread identifier is declared with in this file
SpreadArrays(expr) ==
    IF expr.kind # "identifier" THEN <<>>
    ELSE LET declarations == Declarations(expr)
         IN Concat([n \in 1..Len(declarations) |->
                IF /\ declarations[n].kind = "variable"
                   /\ declarations[n].initializer.kind = "array"
                THEN <<declarations[n].initializer>>
                ELSE <<>>])

\* resolveSpreadEndpoints
resolveSpreadEndpoints(expr) ==
    LET arrays == SpreadArrays(expr)
    IN Concat([a \in 1..Len(arrays) |->
            Concat([n \in 1..Len(arrays[a].elements) |->
                LET element == arrays[a].elements[n]
                IN CASE IsObjectLiteral(element) ->
                            parseEndpointObject(element)
                     [] element.kind = "identifier" ->
                            resolveEndpointReference(element)
                     [] OTHER -> <<>>])])

\* extractCollectionEndpoints: the endpoints array of a collection or global
extractCollectionEndpoints(obj) ==
    IF "endpoints" \notin DOMAIN obj THEN <<>>
    ELSE Concat([n \in 1..Len(obj.endpoints) |->
            LET element == obj.endpoints[n]
            IN CASE IsObjectLiteral(element) -> parseEndpointObject(element)
                 [] element.kind = "identifier" ->
                        resolveEndpointReference(element)
                 [] element.kind = "spread" ->
                        resolveSpreadEndpoints(element.expression)
                 [] OTHER -> <<>>])

\* parseCollectionObject
parseCollectionObject(obj, sourceFile) ==
    LET slug == extractStringProperty(obj, "slug")
    IN IF ~Truthy(slug) THEN <<>>
       ELSE <<[slug |-> slug,
               auth |-> extractBooleanProperty(obj, "auth"),
               upload |-> extractBooleanProperty(obj, "upload"),
               endpoints |-> extractCollectionEndpoints(obj),
               sourceFile |-> sourceFile]>>

\* resolveCollectionReference: every branch that finds a literal returns
\* what parseCollectionObject makes of it
resolveCollectionReference(node) ==
    LET OfDeclaration(declaration) ==
            CASE declaration.kind = "variable" ->
                    LET initializer == declaration.initializer
                        objLiteral ==
                            findObjectLiteralInExpression(initializer)
                    IN CASE IsObjectLiteral(initializer) ->
                                <<parseCollectionObject(initializer,
                                                        declaration.file)>>
                         [] IsCallOnObjectLiteral(initializer) ->
                                <<parseCollectionObject(
                                    initializer.arguments[1],
                                    declaration.file)>>
                         [] /\ initializer.kind \in {"as", "satisfies"}
                            /\ IsObjectLiteral(initializer.expression) ->
                                <<parseCollectionObject(
                                    initializer.expression,
                                    declaration.file)>>
                         [] objLiteral # <<>> ->
                                <<parseCollectionObject(objLiteral[1],
                                                        declaration.file)>>
                         [] OTHER -> <<>>
              [] declaration.kind = "exportAssignment" ->
                    IF IsObjectLiteral(declaration.expression)
                    THEN <<parseCollectionObject(declaration.expression,
                                                 declaration.file)>>
                    ELSE <<>>
              [] declaration.kind = "importSpecifier" ->
                    LET objLiteral == ImportedObjectLiteral(declaration)
                    IN IF objLiteral # <<>>
                       THEN <<parseCollectionObject(objLiteral[1],
                                                    declaration.module)>>
                       ELSE <<>>
              [] OTHER -> <<>>
        declarations == Declarations(node)
        returned == FirstResult([n \in 1..Len(declarations) |->
                                    OfDeclaration(declarations[n])])
    IN IF returned = <<>> THEN <<>> ELSE returned[1]

\* resolveSpreadCollections
resolveSpreadCollections(expr) ==
    LET arrays == SpreadArrays(expr)
    IN Concat([a \in 1..Len(arrays) |->
            Concat([n \in 1..Len(arrays[a].elements) |->
                LET element == arrays[a].elements[n]
                IN CASE IsObjectLiteral(element) ->
                            parseCollectionObject(element, Undefined)
                     [] element.kind = "identifier" ->
                            resolveCollectionReference(element)
                     [] OTHER -> <<>>])])

\* extractCollections
extractCollections(cfg) ==
    Concat([n \in 1..Len(cfg.collections) |->
        LET element == cfg.collections[n]
        IN CASE IsObjectLiteral(element) ->
                    parseCollectionObject(element, Undefined)
             [] element.kind \in {"identifier", "propertyAccess"} ->
                    resolveCollectionReference(element)
             [] element.kind = "spread" ->
                    resolveSpreadCollections(element.expression)
             [] OTHER -> <<>>])

\* parseGlobalObject
parseGlobalObject(obj, sourceFile) ==
    LET slug == extractStringProperty(obj, "slug")
    IN IF ~Truthy(slug) THEN <<>>
       ELSE <<[slug |-> slug,
               endpoints |-> extractCollectionEndpoints(obj),
               sourceFile |-> sourceFile]>>

\* resolveGlobalReference: a local variable counts only when its
\* initializer is the literal itself or a call on it
resolveGlobalReference(node) ==
    LET OfDeclaration(declaration) ==
            CASE declaration.kind = "variable" ->
                    LET initializer == declaration.initializer
                    IN CASE IsObjectLiteral(initializer) ->
                                <<parseGlobalObject(initializer,
                                                    declaration.file)>>
                         [] IsCallOnObjectLiteral(initializer) ->
                                <<parseGlobalObject(
                                    initializer.arguments[1],
                                    declaration.file)>>
                         [] OTHER -> <<>>
              [] declaration.kind = "importSpecifier" ->
                    LET objLiteral == ImportedObjectLiteral(declaration)
                    IN IF objLiteral # <<>>
                       THEN <<parseGlobalObject(objLiteral[1],
                                                declaration.module)>>
                       ELSE <<>>
              [] OTHER -> <<>>
        declarations == Declarations(node)
        returned == FirstResult([n \in 1..Len(declarations) |->
                                    OfDeclaration(declarations[n])])
    IN IF returned = <<>> THEN <<>> ELSE returned[1]

\* resolveSpreadGlobals
resolveSpreadGlobals(expr) ==
    LET arrays == SpreadArrays(expr)
    IN Concat([a \in 1..Len(arrays) |->
            Concat([n \in 1..Len(arrays[a].elements) |->
                LET element == arrays[a].elements[n]
                IN CASE IsObjectLiteral(element) ->
                            parseGlobalObject(element, Undefined)
                     [] element.kind = "identifier" ->
                            resolveGlobalReference(element)
                     [] OTHER -> <<>>])])

\* extractGlobals
extractGlobals(cfg) ==
    Concat([n \in 1..Len(cfg.globals) |->
        LET element == cfg.globals[n]
        IN CASE IsObjectLiteral(element) ->
                    parseGlobalObject(element, Undefined)
             [] element.kind \in {"identifier", "propertyAccess"} ->
                    resolveGlobalReference(element)
             [] element.kind = "spread" ->
                    resolveSpreadGlobals(element.expression)
             [] OTHER -> <<>>])

\* extractEndpoints: the root-level endpoints, inline object literals only
extractEndpoints(cfg) ==
    Concat([n \in 1..Len(cfg.endpoints) |->
        LET el == cfg.endpoints[n]
            path == extractStringProperty(el, "path")
            method == extractStringProperty(el, "method")
        IN IF IsObjectLiteral(el) /\ Truthy(path) /\ Truthy(method)
           THEN <<[path |-> path, method |-> method,
                   root |-> extractBooleanProperty(el, "root")]>>
           ELSE <<>>])

\* extractApiPrefix: routes.api when it is a string literal, else "/api"
extractApiPrefix(cfg) ==
    IF cfg.routesApi # Absent THEN cfg.routesApi ELSE <<"/", "api">>

(***************************************************************************)
(* Payload CMS: route generators                                           *)
(***************************************************************************)
\* path.relative(from, to) for a file below the directory from
PathRelative(from, to) ==
    IF StartsWith(to, from \o <<"/">>) THEN DropFirst(to, Len(from) + 1)
    ELSE <<"..">> \o to

\* headers holds the Content-Type of the headers object, when there is one
Handler(path, method, file, source, slug, contentType) ==
    [path |-> path, method |-> method, file |-> file, source |-> source,
     collectionSlug |-> slug, headers |-> contentType]

JsonIf(hasBody) == IF hasBody THEN <<"application/json">> ELSE Undefined

\* the custom endpoints of a collection or global whose method is mapped
CustomEndpointRoutes(endpoints, basePath, file, slug) ==
    Concat([n \in 1..Len(endpoints) |->
        LET method == METHOD_MAP(LowerCase(endpoints[n].method))
        IN IF method # Undefined
           THEN <<Handler(basePath \o endpoints[n].path, method, file,
                          "endpoint", slug, Undefined)>>
           ELSE <<>>])

CrudRoutes(collection, basePath, file) ==
    [n \in 1..Len(COLLECTION_OPERATIONS) |->
        LET op == COLLECTION_OPERATIONS[n]
            contentType ==
                IF op.hasBody
                THEN IF collection.upload /\ op.name = "create"
                     THEN <<"multipart/form-data">>
                     ELSE <<"application/json">>
                ELSE Undefined
        IN Handler(basePath \o op.pathSuffix, op.method, file, "collection",
                   collection.slug, contentType)]

AuthRoutes(collection, basePath, file) ==
    [n \in 1..Len(AUTH_COLLECTION_OPERATIONS) |->
        LET op == AUTH_COLLECTION_OPERATIONS[n]
        IN Handler(basePath \o op.pathSuffix, op.method, file, "collection",
                   collection.slug, JsonIf(op.hasBody))]

UploadRoutes(collection, basePath, file) ==
    [n \in 1..Len(UPLOAD_COLLECTION_OPERATIONS) |->
        LET op == UPLOAD_COLLECTION_OPERATIONS[n]
        IN Handler(basePath \o op.pathSuffix, op.method, file, "collection",
                   collection.slug, <<"multipart/form-data">>)]

\* slip: the auth operations emitted whatever the auth flag says
generateCollectionRoutes_AuthAlways(collection, apiPrefix, configFilePath, root) ==
    LET basePath == apiPrefix \o <<"/">> \o collection.slug
        filePath == IF collection.sourceFile # Undefined
                    THEN PathRelative(root, collection.sourceFile)
                    ELSE configFilePath
    IN CrudRoutes(collection, basePath, filePath)
        \o AuthRoutes(collection, basePath, filePath)
        \o CustomEndpointRoutes(collection.endpoints, basePath, filePath,
                                collection.slug)

generateCollectionRoutes(collection, apiPrefix, configFilePath, root) ==
    LET basePath == apiPrefix \o <<"/">> \o collection.slug
        filePath == IF collection.sourceFile # Undefined
                    THEN PathRelative(root, collection.sourceFile)
                    ELSE configFilePath
    IN CrudRoutes(collection, basePath, filePath)
        \o (IF collection.auth THEN AuthRoutes(collection, basePath, filePath)
            ELSE <<>>)
        \o (IF collection.upload
            THEN UploadRoutes(collection, basePath, filePath)
            ELSE <<>>)
        \o CustomEndpointRoutes(collection.endpoints, basePath, filePath,
                                collection.slug)

generateGlobalRoutes(global, apiPrefix, configFilePath, root) ==
    LET basePath == apiPrefix \o <<"/", "globals", "/">> \o global.slug
        filePath == IF global.sourceFile # Undefined
                    THEN PathRelative(root, global.sourceFile)
                    ELSE configFilePath
    IN [n \in 1..Len(GLOBAL_OPERATIONS) |->
            LET op == GLOBAL_OPERATIONS[n]
            IN Handler(basePath \o op.pathSuffix, op.method, filePath,
                       "global", Undefined, JsonIf(op.hasBody))]
        \o CustomEndpointRoutes(global.endpoints, basePath, filePath,
                                Undefined)

\* generateEndpointRoute: no handler for an unmapped method
generateEndpointRoute(endpoint, apiPrefix, filePath) ==
    LET method == METHOD_MAP(LowerCase(endpoint.method))
    IN IF method = Undefined THEN <<>>
       ELSE <<Handler(IF endpoint.root THEN endpoint.path
                      ELSE apiPrefix \o endpoint.path,
                      method, filePath, "endpoint", Undefined, Undefined)>>

generateDefaultEndpoints(apiPrefix, filePath) ==
    [n \in 1..Len(DEFAULT_PAYLOAD_ENDPOINTS) |->
        LET endpoint == DEFAULT_PAYLOAD_ENDPOINTS[n]
        IN Handler(apiPrefix \o endpoint.path, endpoint.method, filePath,
                   "default", Undefined, JsonIf(endpoint.hasBody))]

\* the project root and the absolute path of the config file in it
RootDir == <<"/", "w">>
ConfigFile == RootDir \o <<"/", "payload.config.ts">>

parsePayloadConfig(cfg) ==
    LET filePath == PathRelative(RootDir, ConfigFile)
        apiPrefix == extractApiPrefix(cfg)
        collections == extractCollections(cfg)
        globals == extractGlobals(cfg)
        endpoints == extractEndpoints(cfg)
    IN Concat([n \in 1..Len(collections) |->
                generateCollectionRoutes(collections[n], apiPrefix, filePath,
                                         RootDir)])
        \o Concat([n \in 1..Len(globals) |->
                generateGlobalRoutes(globals[n], apiPrefix, filePath,
                                     RootDir)])
        \o Concat([n \in 1..Len(endpoints) |->
                generateEndpointRoute(endpoints[n], apiPrefix, filePath)])
        \o generateDefaultEndpoints(apiPrefix, filePath)

(***************************************************************************)
(* Payload CMS: the configs explored                                       *)
(***************************************************************************)
Slugs == {<<"posts">>, <<"media">>}
BooleanLiterals == {"absent", "true", "false"}
UploadLiterals == {"absent", "true"}
ApiPrefixes == {<<"/", "v1">>}
EndpointMethods == {<<"g", "e", "t">>, <<"P", "O", "S", "T">>,
                    <<"c", "o", "n", "n", "e", "c", "t">>, Absent}
EndpointPath == <<"/", "stats">>

\* the names the config file can refer to, and a name without a symbol
DeclaredNames == {"Users", "all", "more"}
NoSymbol == [kind |-> "none"]

\* number of array elements written in the config so far
RECURSIVE SumEndpoints(_)
SumEndpoints(cs) ==
    IF cs = <<>> THEN 0
    ELSE (IF "endpoints" \in DOMAIN Head(cs) THEN Len(Head(cs).endpoints)
          ELSE 0) + SumEndpoints(Tail(cs))

\* the initializer a declaration leads to, <<>> when there is none
InitializerOf(declaration) ==
    CASE declaration.kind = "variable" -> <<declaration.initializer>>
      [] declaration.kind = "importSpecifier" /\ declaration.exported # <<>>
            -> <<declaration.exported[1].initializer>>
      [] OTHER -> <<>>

\* wrappers and array elements of an expression
RECURSIVE ExpressionSize(_)
ExpressionSize(expr) ==
    CASE expr.kind \in {"as", "satisfies", "paren"} ->
            1 + ExpressionSize(expr.expression)
      [] expr.kind = "call" -> 1 + ExpressionSize(expr.arguments[1])
      [] expr.kind = "array" -> Len(expr.elements)
      [] OTHER -> 0

ProjectSize ==
    LET SizeOf(name) ==
            IF InitializerOf(project[name]) = <<>> THEN 0
            ELSE ExpressionSize(InitializerOf(project[name])[1])
    IN SizeOf("Users") + SizeOf("all") + SizeOf("more")

Elements(cfg) ==
    Len(cfg.collections) + SumEndpoints(cfg.collections) + Len(cfg.globals)
        + Len(cfg.endpoints) + ProjectSize

PayloadInit ==
    /\ config = [routesApi |-> Absent, collections |-> <<>>,
                 globals |-> <<>>, endpoints |-> <<>>]
    /\ ppc = "edit"
    /\ payloadHandlers = <<>>
    /\ prevHandlers = <<>>
    /\ edited = 0
    /\ project = [name \in DeclaredNames |-> NoSymbol]

PayloadFrame == UNCHANGED <<normVars, fileVars, trpcVars, detectVars,
                         entryVars, routerDetVars, httpVars, moreVars>>

\* the config sets routes.api
SetApiPrefix(prefix) ==
    /\ component = "none"
    /\ component' = "payload"
    /\ config' = [config EXCEPT !.routesApi = prefix]
    /\ UNCHANGED <<ppc, payloadHandlers, prevHandlers, edited, project>>
    /\ PayloadFrame

\* one more inline collection literal in the collections array
AddCollection(slug, auth, upload) ==
    /\ component \in {"none", "payload"}
    /\ ppc = "edit"
    /\ config.globals = <<>> /\ config.endpoints = <<>>
    /\ Elements(config) < MaxElements
    /\ component' = "payload"
    /\ config' = [config EXCEPT !.collections =
                    Append(@, [kind |-> "object", slug |-> slug,
                               auth |-> auth, upload |-> upload,
                               endpoints |-> <<>>])]
    /\ UNCHANGED <<ppc, payloadHandlers, prevHandlers, edited, project>>
    /\ PayloadFrame

\* one more inline endpoint literal in the last collection's endpoints
AddCollectionEndpoint(method) ==
    /\ component = "payload"
    /\ ppc = "edit"
    /\ config.collections # <<>>
    /\ config.globals = <<>> /\ config.endpoints = <<>>
    /\ Elements(config) < MaxElements
    /\ config' = [config EXCEPT
                    !.collections[Len(config.collections)].endpoints =
                        Append(@, [kind |-> "object", path |-> EndpointPath,
                                   method |-> method])]
    /\ UNCHANGED <<component, ppc, payloadHandlers, prevHandlers, edited,
                   project>>
    /\ PayloadFrame

\* one more inline global literal
AddGlobal(slug) ==
    /\ component \in {"none", "payload"}
    /\ ppc = "edit"
    /\ config.endpoints = <<>>
    /\ Elements(config) < MaxElements
    /\ component' = "payload"
    /\ config' = [config EXCEPT !.globals =
                    Append(@, [kind |-> "object", slug |-> slug,
                               endpoints |-> <<>>])]
    /\ UNCHANGED <<ppc, payloadHandlers, prevHandlers, edited, project>>
    /\ PayloadFrame

\* one more inline endpoint literal in the root endpoints array
AddRootEndpoint(method, root) ==
    /\ component \in {"none", "payload"}
    /\ ppc = "edit"
    /\ Elements(config) < MaxElements
    /\ component' = "payload"
    /\ config' = [config EXCEPT !.endpoints =
                    Append(@, [kind |-> "object", path |-> <<"/", "health">>,
                               method |-> method, root |-> root])]
    /\ UNCHANGED <<ppc, payloadHandlers, prevHandlers, edited, project>>
    /\ PayloadFrame

ParsePayloadConfig ==
    /\ component \in {"none", "payload"}
    /\ ppc = "edit"
    /\ component' = "payload"
    /\ payloadHandlers' = parsePayloadConfig(config)
    /\ ppc' = "parsed"
    /\ UNCHANGED <<config, prevHandlers, edited, project>>
    /\ PayloadFrame

\* the auth flag of collection i is switched from true to false and the
\* config is parsed again
SwitchAuthOff(i) ==
    /\ component = "payload"
    /\ ppc = "parsed"
    /\ i \in 1..Len(config.collections)
    /\ config.collections[i].auth = "true"
    /\ config' = [config EXCEPT !.collections[i].auth = "false"]
    /\ prevHandlers' = payloadHandlers
    /\ payloadHandlers' = parsePayloadConfig(config')
    /\ edited' = i
    /\ ppc' = "reparsed"
    /\ UNCHANGED <<component, project>>
    /\ PayloadFrame

\* the upload flag of collection i is switched on and the config is parsed
\* again
SwitchUploadOn(i) ==
    /\ component = "payload"
    /\ ppc = "parsed"
    /\ i \in 1..Len(config.collections)
    /\ config.collections[i].upload \in {"absent", "false"}
    /\ config' = [config EXCEPT !.collections[i].upload = "true"]
    /\ prevHandlers' = payloadHandlers
    /\ payloadHandlers' = parsePayloadConfig(config')
    /\ edited' = i
    /\ ppc' = "uploadOn"
    /\ UNCHANGED <<component, project>>
    /\ PayloadFrame

NextPayload ==
    \/ \E prefix \in ApiPrefixes : SetApiPrefix(prefix)
    \/ \E slug \in Slugs, a \in BooleanLiterals, u \in UploadLiterals :
            AddCollection(slug, a, u)
    \/ \E m \in EndpointMethods : AddCollectionEndpoint(m)
    \/ \E slug \in {<<"settings">>} : AddGlobal(slug)
    \/ \E m \in EndpointMethods \ {Absent}, r \in {"absent", "true"} :
            AddRootEndpoint(m, r)
    \/ ParsePayloadConfig
    \/ \E i \in 1..MaxElements : SwitchAuthOff(i)
    \/ \E i \in 1..MaxElements : SwitchUploadOn(i)

(***************************************************************************)
(* Payload CMS: configs that refer to declarations                         *)
(***************************************************************************)
UsersFile == RootDir \o <<"/", "src", "/", "collections", "/", "Users.ts">>
IndexFile == RootDir \o <<"/", "src", "/", "collections", "/", "index.ts">>

\* an object literal that can stand for a collection, a global or an
\* endpoint: { slug: tag, path: "/" + tag, method: "get" }
Literal(tag) ==
    [kind |-> "object", slug |-> <<tag>>, path |-> <<"/", tag>>,
     method |-> <<"g", "e", "t">>]

TagOf(name) ==
    CASE name = "Users" -> "users"
      [] name = "all" -> "media"
      [] name = "more" -> "pages"

Identifier(name) == [kind |-> "identifier", name |-> name]
SpreadElement(name) == [kind |-> "spread", expression |-> Identifier(name)]

Places == {"local", "imported", "reexported", "notExported", "noModule"}

\* the declaration of a name whose initializer is written at a place:
\* in the config file, in a module the config imports from, in a module
\* that re-exports it from Users.ts, or nowhere the import finds
DeclarationAt(place, initializer) ==
    LET decl(file) == [kind |-> "variable", file |-> file,
                       initializer |-> initializer]
        import(module, exported) ==
            [kind |-> "importSpecifier", module |-> module,
             exported |-> exported]
    IN CASE place = "local" -> decl(ConfigFile)
         [] place = "imported" -> import(UsersFile, <<decl(UsersFile)>>)
         [] place = "reexported" -> import(IndexFile, <<decl(UsersFile)>>)
         [] place = "notExported" -> import(UsersFile, <<>>)
         [] place = "noModule" -> import(Undefined, <<>>)

WithInitializer(declaration, initializer) ==
    IF declaration.kind = "variable"
    THEN [declaration EXCEPT !.initializer = initializer]
    ELSE [declaration EXCEPT !.exported[1].initializer = initializer]

Wrappers == {"as", "satisfies", "paren", "call"}

Wrap(w, expr) ==
    IF w = "call" THEN [kind |-> "call", arguments |-> <<expr>>]
    ELSE [kind |-> w, expression |-> expr]

ResolverFrame ==
    /\ component' = "payload"
    /\ UNCHANGED <<ppc, payloadHandlers, prevHandlers, edited>>
    /\ PayloadFrame

Editing ==
    /\ component \in {"none", "payload"}
    /\ ppc = "edit"

\* const Users = { ... }, here or in another file
DeclareLiteral(name, place) ==
    /\ Editing
    /\ project[name] = NoSymbol
    /\ project' = [project EXCEPT
                    ![name] = DeclarationAt(place, Literal(TagOf(name)))]
    /\ UNCHANGED config
    /\ ResolverFrame

\* const all = [], here or in another file
DeclareArray(name, place) ==
    /\ Editing
    /\ project[name] = NoSymbol
    /\ project' = [project EXCEPT ![name] =
                    DeclarationAt(place,
                                  [kind |-> "array", elements |-> <<>>])]
    /\ UNCHANGED config
    /\ ResolverFrame

\* the initializer of a declared name gets one more wrapper around it
WrapInitializer(name, w) ==
    /\ Editing
    /\ InitializerOf(project[name]) # <<>>
    /\ InitializerOf(project[name])[1].kind # "array"
    /\ Elements(config) < MaxElements
    /\ project' = [project EXCEPT ![name] =
                    WithInitializer(@, Wrap(w, InitializerOf(@)[1]))]
    /\ UNCHANGED config
    /\ ResolverFrame

\* a declared array gets one more element
PushElement(name, element) ==
    /\ Editing
    /\ InitializerOf(project[name]) # <<>>
    /\ InitializerOf(project[name])[1].kind = "array"
    /\ Elements(config) < MaxElements
    /\ project' = [project EXCEPT ![name] =
                    WithInitializer(@,
                        [InitializerOf(@)[1] EXCEPT
                            !.elements = Append(@, element)])]
    /\ UNCHANGED config
    /\ ResolverFrame

ArrayElements(name) ==
    {Literal(TagOf(name))}
        \cup {Identifier(n) : n \in {"Users"}}
        \cup {SpreadElement(n) : n \in {"all", "more"}}

ConfigElements ==
    {Identifier(n) : n \in {"Users"}}
        \cup {SpreadElement(n) : n \in {"all"}}
        \cup {[kind |-> "propertyAccess", name |-> "Users"]}

\* one more element that is not an inline literal in collections,
\* globals or the root endpoints
Reference(slot, element) ==
    /\ Editing
    /\ Elements(config) < MaxElements
    /\ config' = [config EXCEPT ![slot] = Append(@, element)]
    /\ UNCHANGED project
    /\ ResolverFrame

\* one more element that is not an inline literal in the endpoints of the
\* last collection, an inline one
ReferenceCollectionEndpoint(element) ==
    /\ Editing
    /\ config.collections # <<>>
    /\ IsObjectLiteral(config.collections[Len(config.collections)])
    /\ Elements(config) < MaxElements
    /\ config' = [config EXCEPT
                    !.collections[Len(config.collections)].endpoints =
                        Append(@, element)]
    /\ UNCHANGED project
    /\ ResolverFrame

NextResolver ==
    \/ \E place \in Places : DeclareLiteral("Users", place)
    \/ \E name \in {"all", "more"}, place \in {"local", "imported"} :
            DeclareArray(name, place)
    \/ \E w \in Wrappers : WrapInitializer("Users", w)
    \/ \E name \in {"all", "more"} :
            \E element \in ArrayElements(name) : PushElement(name, element)
    \/ \E slot \in {"collections", "globals", "endpoints"} :
            \E element \in ConfigElements : Reference(slot, element)
    \/ \E element \in ConfigElements \ {[kind |-> "propertyAccess",
                                         name |-> "Users"]} :
            ReferenceCollectionEndpoint(element)
    \/ AddCollection(<<"posts">>, "absent", "absent")
    \/ \E r \in {"absent", "true"} : AddRootEndpoint(<<"g", "e", "t">>, r)
    \/ ParsePayloadConfig

(***************************************************************************)
(* Framework detection                                                     *)
(***************************************************************************)
\* how an async call settles: resolved with a value, or rejected
Resolved(v) == [threw |-> FALSE, value |-> v]
Rejected == [threw |-> TRUE, value |-> "error"]
NotCalled == [threw |-> FALSE, value |-> "<not called>"]

\* what reading and parsing a package.json can come to
ManifestKinds ==
    {"unreadable",      \* readFile rejects
     "malformed",       \* JSON.parse throws
     "null",            \* the JSON value null: reading .dependencies throws
     "plain",           \* no @trpc/server entry
     "emptyVersion",    \* dependencies["@trpc/server"] is ""
     "dependency",      \* in dependencies
     "devDependency"}   \* in devDependencies

\* the body of the inner try for one workspace folder
ReadsTRPCDependency(manifest) ==
    IF manifest \in {"unreadable", "malformed", "null"} THEN Rejected
    ELSE Resolved(manifest \in {"dependency", "devDependency"})

\* slip: no try around the read of one manifest
RECURSIVE hasTRPC_NoInnerCatch(_)
hasTRPC_NoInnerCatch(folders) ==
    IF folders = Undefined \/ folders = <<>> THEN Resolved(FALSE)
    ELSE LET found == ReadsTRPCDependency(Head(folders))
         IN IF found.threw THEN Resolved(FALSE)
            ELSE IF found.value THEN Resolved(TRUE)
            ELSE hasTRPC_NoInnerCatch(Tail(folders))

RECURSIVE hasTRPC(_)
hasTRPC(folders) ==
    IF folders = Undefined \/ folders = <<>> THEN Resolved(FALSE)
    ELSE LET found == ReadsTRPCDependency(Head(folders))
         IN IF ~found.threw /\ found.value THEN Resolved(TRUE)
            ELSE hasTRPC(Tail(folders))

\* hasPayloadCMS around the settled call of hasWorkspaceDependency
hasPayloadCMS(hasWorkspaceDependency) ==
    IF hasWorkspaceDependency.threw THEN Resolved(FALSE)
    ELSE Resolved(hasWorkspaceDependency.value)

DetectInit ==
    /\ workspaceFolders = Undefined
    /\ probe = NotCalled
    /\ dpc = "idle"
    /\ detected = NotCalled

DetectFrame ==
    UNCHANGED <<normVars, fileVars, trpcVars, payloadVars, entryVars,
                routerDetVars, httpVars, moreVars>>

\* a workspace is opened, with no folder yet
OpenWorkspace ==
    /\ component = "none"
    /\ component' = "detection"
    /\ workspaceFolders' = <<>>
    /\ UNCHANGED <<probe, dpc, detected>>
    /\ DetectFrame

\* one more folder in the workspace
AddWorkspaceFolder(manifest) ==
    /\ component = "detection"
    /\ dpc = "idle"
    /\ Len(workspaceFolders) < MaxFolders
    /\ workspaceFolders' = Append(workspaceFolders, manifest)
    /\ UNCHANGED <<component, probe, dpc, detected>>
    /\ DetectFrame

HasTRPC ==
    /\ component \in {"none", "detection"}
    /\ dpc = "idle"
    /\ component' = "detection"
    /\ detected' = hasTRPC(workspaceFolders)
    /\ dpc' = "hasTRPC"
    /\ UNCHANGED <<workspaceFolders, probe>>
    /\ DetectFrame

HasPayloadCMS(hasWorkspaceDependency) ==
    /\ component \in {"none", "detection"}
    /\ dpc = "idle"
    /\ component' = "detection"
    /\ probe' = hasWorkspaceDependency
    /\ detected' = hasPayloadCMS(hasWorkspaceDependency)
    /\ dpc' = "hasPayloadCMS"
    /\ UNCHANGED workspaceFolders
    /\ DetectFrame

NextDetection ==
    \/ OpenWorkspace
    \/ \E manifest \in ManifestKinds : AddWorkspaceFolder(manifest)
    \/ HasTRPC
    \/ \E found \in BOOLEAN : HasPayloadCMS(Resolved(found))
    \/ HasPayloadCMS(Rejected)

(***************************************************************************)
(* Extraction entry points                                                 *)
(***************************************************************************)
PAYLOAD_CONFIG_PATTERNS ==
    << <<"payload.config.ts">>, <<"payload.config.js">>,
       <<"src", "/", "payload.config.ts">>,
       <<"src", "/", "payload.config.js">>,
       <<"config", "/", "payload.config.ts">>,
       <<"config", "/", "payload.config.js">> >>

\* convertToRoutes
convertToRoutes(hs, root) ==
    [n \in 1..Len(hs) |->
        [name |-> hs[n].method \o <<" ">> \o hs[n].path,
         path |-> hs[n].path,
         method |-> hs[n].method,
         filePath |-> root \o <<"/">> \o hs[n].file,
         type |-> "payload-cms",
         headers |-> hs[n].headers]]

\* findPayloadConfig: the first pattern whose file can be accessed and
\* loaded, 0 when there is none
RECURSIVE findPayloadConfig(_, _)
findPayloadConfig(w, k) ==
    IF k > Len(PAYLOAD_CONFIG_PATTERNS) THEN 0
    ELSE IF w.configFiles[k] = "loadable" THEN k
    ELSE findPayloadConfig(w, k + 1)

\* the config object literals a config file is taken to hold
EmptyConfig ==
    [routesApi |-> Absent, collections |-> <<>>, globals |-> <<>>,
     endpoints |-> <<>>]

PostsConfig ==
    [EmptyConfig EXCEPT !.collections =
        << [kind |-> "object", slug |-> <<"posts">>, auth |-> "true",
            upload |-> "absent", endpoints |-> <<>>] >>]

\* the handlers with the config file they cite set to the file found
WithFile(hs, file) == [n \in 1..Len(hs) |-> [hs[n] EXCEPT !.file = file]]

\* parsePayloadConfig on the config file found at pattern k
HandlersOfConfigFile(w, k) ==
    IF w.configObject = "none" THEN <<>>
    ELSE WithFile(parsePayloadConfig(IF w.configObject = "posts"
                                     THEN PostsConfig ELSE EmptyConfig),
                  PAYLOAD_CONFIG_PATTERNS[k])

\* the body of the try of parsePayloadCMSRoutes
ParsePayloadCMSRoutesBody(w) ==
    IF ~w.rootDirGiven THEN Resolved(<<>>)
    ELSE IF w.findTsConfig = "rejects" THEN Rejected
    ELSE IF w.newProject = "throws" THEN Rejected
    ELSE LET k == findPayloadConfig(w, 1)
         IN IF k = 0 THEN Resolved(<<>>)
            ELSE IF w.configObject = "throws" THEN Rejected
            ELSE Resolved(convertToRoutes(HandlersOfConfigFile(w, k),
                                          RootDir))

\* slip: the error of a failed step is thrown on to the caller
parsePayloadCMSRoutes_Rethrow(w) == ParsePayloadCMSRoutesBody(w)

parsePayloadCMSRoutes(w) ==
    LET body == ParsePayloadCMSRoutesBody(w)
    IN IF body.threw THEN Resolved(<<>>) ELSE body

\* parseTRPCRouterFile with its try: a file that cannot be read gives []
ParsedRouterFile(file) ==
    IF ~file.readable THEN <<>>
    ELSE parseTRPCRouterFile(file.name, file.procedures)

\* parseTRPCRouters
parseTRPCRouters(w) ==
    IF w.findFiles = "rejects" THEN Resolved(<<>>)
    ELSE Resolved(Concat([n \in 1..Len(w.routerFiles) |->
                            ParsedRouterFile(w.routerFiles[n])]))

NoWorld == [kind |-> "none"]

EntryInit ==
    /\ world = NoWorld
    /\ epc = "idle"
    /\ settled = NotCalled

EntryFrame ==
    UNCHANGED <<normVars, fileVars, trpcVars, payloadVars, detectVars,
                routerDetVars, httpVars, moreVars>>

ConfigFileStates == {"absent", "loadable", "unloadable"}

\* how many of the six config paths hold a file
MaxConfigFiles == 2

ConfigFileSets ==
    {f \in [1..Len(PAYLOAD_CONFIG_PATTERNS) -> ConfigFileStates] :
        Cardinality({k \in DOMAIN f : f[k] # "absent"}) <= MaxConfigFiles}

\* what parsePayloadCMSRoutes can meet: a root directory that is not given,
\* does not exist, or exists with some config files in it
IsPayloadWorld(w) ==
    /\ ~w.rootDirGiven => ~w.rootDirExists
    /\ ~w.rootDirExists =>
            /\ w.findTsConfig # "found"
            /\ \A k \in DOMAIN w.configFiles : w.configFiles[k] = "absent"
    /\ (\A k \in DOMAIN w.configFiles : w.configFiles[k] # "loadable")
            => w.configObject = "none"

RouterFileStates ==
    [name : RouterFiles, readable : BOOLEAN,
     procedures : {<<>>, <<[kind |-> "query", name |-> <<"l", "i", "s", "t">>]>>}]

TrpcWorlds ==
    {[kind |-> "trpc", findFiles |-> "rejects", routerFiles |-> <<>>]}
        \cup {[kind |-> "trpc", findFiles |-> "ok", routerFiles |-> fs] :
                fs \in {<<>>} \cup {<<f>> : f \in RouterFileStates}
                        \cup {<<f, g>> : f, g \in RouterFileStates}}

ParsePayloadCMSRoutes(w) ==
    /\ component = "none"
    /\ IsPayloadWorld(w)
    /\ component' = "entry"
    /\ world' = w
    /\ settled' = parsePayloadCMSRoutes(w)
    /\ epc' = "payload"
    /\ EntryFrame

ParseTRPCRouters(w) ==
    /\ component = "none"
    /\ component' = "entry"
    /\ world' = w
    /\ settled' = parseTRPCRouters(w)
    /\ epc' = "trpc"
    /\ EntryFrame

NextEntry ==
    \/ \E given, exists \in BOOLEAN, files \in ConfigFileSets,
          tsconfig \in {"none", "found", "rejects"},
          ctor, added \in {"ok", "throws"},
          object \in {"none", "empty", "posts", "throws"} :
            ParsePayloadCMSRoutes(
                [kind |-> "payload", rootDirGiven |-> given,
                 rootDirExists |-> exists, findTsConfig |-> tsconfig,
                 newProject |-> ctor, addSourceFiles |-> added,
                 configFiles |-> files, configObject |-> object])
    \/ \E w \in TrpcWorlds : ParseTRPCRouters(w)

(***************************************************************************)
(* tRPC router detection (trpc-detection)                                  *)
(***************************************************************************)
S_createTRPCRouter == <<"c", "r", "e", "a", "t", "e", "T", "R", "P", "C", "R", "o", "u", "t", "e", "r">>
S_appRouter == <<"a", "p", "p", "R", "o", "u", "t", "e", "r">>
S_createCaller == <<"c", "r", "e", "a", "t", "e", "C", "a", "l", "l", "e", "r">>
S_Router == <<"R", "o", "u", "t", "e", "r">>
S_t == <<"t">>

ROUTER_FACTORY_NAMES == {S_createTRPCRouter, S_router}

\* /router$/i: a pattern is kept as the suffix it asks for and its i flag
ROUTER_IDENTIFIER_PATTERN == [suffix |-> S_router, ignoreCase |-> TRUE]

\* RegExp.prototype.test for a pattern of the form <suffix>$
Test(pattern, text) ==
    IF pattern.ignoreCase
    THEN EndsWith(LowerCase(text), LowerCase(pattern.suffix))
    ELSE EndsWith(text, pattern.suffix)

\* normalizeFactoryNames, for names that hold no comma and no blank
normalizeFactoryNames(names) ==
    LET deduped == {names[k] : k \in {j \in DOMAIN names : names[j] # <<>>}}
    IN IF names = Undefined \/ Len(names) = 0 \/ deduped = {}
       THEN ROUTER_FACTORY_NAMES
       ELSE deduped

\* buildRouterIdentifierPattern: new RegExp(pattern) carries no flag
buildRouterIdentifierPattern(pattern) ==
    IF ~pattern.given \/ ~pattern.valid THEN ROUTER_IDENTIFIER_PATTERN
    ELSE [suffix |-> pattern.suffix, ignoreCase |-> FALSE]

buildRouterDetectionConfig(routerFactories, routerIdentifierPattern) ==
    [factoryNames |-> normalizeFactoryNames(routerFactories),
     identifierPattern |->
        buildRouterIdentifierPattern(routerIdentifierPattern)]

matchesFactoryExpression(expression, factoryNames) ==
    \/ expression.kind = "identifier" /\ expression.text \in factoryNames
    \/ expression.kind = "propertyAccess" /\ expression.name \in factoryNames

RECURSIVE isRouterishExpression(_, _)
isRouterishExpression(expression, identifierPattern) ==
    IF expression.kind = "identifier"
        /\ Test(identifierPattern, expression.text)
    THEN TRUE
    ELSE IF expression.kind = "propertyAccess"
            /\ (\/ Test(identifierPattern, expression.name)
                \/ /\ expression.expression.kind = "identifier"
                   /\ Test(identifierPattern, expression.expression.text))
    THEN TRUE
    ELSE IF expression.kind = "call"
    THEN isRouterishExpression(expression.expression, identifierPattern)
    ELSE FALSE

\* isRouterFactoryCall of a call expression whose getExpression() is given
isRouterFactoryCall(expression, detectionCfg) ==
    \/ matchesFactoryExpression(expression, detectionCfg.factoryNames)
    \/ isRouterishExpression(expression, detectionCfg.identifierPattern)

\* how deep the called expression nests property accesses and calls
MaxNesting == 2

CalleeNames == {S_createTRPCRouter, S_router, S_appRouter, S_createCaller, S_t}

\* an expression that is neither identifier, property access nor call
OtherExpression == [kind |-> "other"]

RECURSIVE Nesting(_)
Nesting(expression) ==
    IF expression.kind \in {"propertyAccess", "call"}
    THEN 1 + Nesting(expression.expression)
    ELSE 0

FactoryOptions == {Undefined, <<>>, <<S_t>>, <<<<>>, S_createCaller>>}

PatternOptions ==
    {[given |-> FALSE, valid |-> TRUE, suffix |-> <<>>],
     [given |-> TRUE, valid |-> FALSE, suffix |-> <<>>],
     [given |-> TRUE, valid |-> TRUE, suffix |-> S_Router]}

RouterDetInit ==
    /\ callee = OtherExpression
    /\ detectionConfig = buildRouterDetectionConfig(Undefined,
                            [given |-> FALSE, valid |-> TRUE, suffix |-> <<>>])
    /\ rdpc = "build"
    /\ isFactoryCall = FALSE

RouterDetFrame ==
    UNCHANGED <<normVars, fileVars, trpcVars, payloadVars, detectVars,
                entryVars, httpVars, moreVars>>

BuildRouterDetectionConfig(routerFactories, routerIdentifierPattern) ==
    /\ component = "none"
    /\ component' = "routerDetection"
    /\ detectionConfig' = buildRouterDetectionConfig(routerFactories,
                                                     routerIdentifierPattern)
    /\ UNCHANGED <<callee, rdpc, isFactoryCall>>
    /\ RouterDetFrame

\* the called expression starts as a bare identifier
WriteIdentifier(name) ==
    /\ component = "routerDetection"
    /\ rdpc = "build"
    /\ callee = OtherExpression
    /\ callee' = [kind |-> "identifier", text |-> name]
    /\ UNCHANGED <<component, detectionConfig, rdpc, isFactoryCall>>
    /\ RouterDetFrame

\* <callee>.<name>
WritePropertyAccess(name) ==
    /\ component = "routerDetection"
    /\ rdpc = "build"
    /\ Nesting(callee) < MaxNesting
    /\ callee' = [kind |-> "propertyAccess", expression |-> callee,
                  name |-> name]
    /\ UNCHANGED <<component, detectionConfig, rdpc, isFactoryCall>>
    /\ RouterDetFrame

\* <callee>(...)
WriteCall ==
    /\ component = "routerDetection"
    /\ rdpc = "build"
    /\ Nesting(callee) < MaxNesting
    /\ callee' = [kind |-> "call", expression |-> callee]
    /\ UNCHANGED <<component, detectionConfig, rdpc, isFactoryCall>>
    /\ RouterDetFrame

IsRouterFactoryCall ==
    /\ component = "routerDetection"
    /\ rdpc = "build"
    /\ isFactoryCall' = isRouterFactoryCall(callee, detectionConfig)
    /\ rdpc' = "checked"
    /\ UNCHANGED <<component, callee, detectionConfig>>
    /\ RouterDetFrame

NextRouterDetection ==
    \/ \E fs \in FactoryOptions, pt \in PatternOptions :
            BuildRouterDetectionConfig(fs, pt)
    \/ \E n \in CalleeNames : WriteIdentifier(n)
    \/ \E n \in CalleeNames : WritePropertyAccess(n)
    \/ WriteCall
    \/ IsRouterFactoryCall

(***************************************************************************)
(* Endpoint-id tag of .http documents (watchapi-request-metadata)          *)
(*                                                                         *)
(* A document is a sequence of characters.  " ", "LF" and "CR" are the     *)
(* white space, "LF" and "CR" the line terminators; every other character  *)
(* is not white space.  A word the patterns spell out ("WatchAPI",         *)
(* "Request", the tag name) is one character.                              *)
(***************************************************************************)
ENDPOINT_ID_TAG == "watchapi.endpointId"

IsWhiteSpace(c) == c \in {" ", "LF", "CR"}
IsLineTerminator(c) == c \in {"LF", "CR"}

\* where \s* stops when it starts at position i: the first position from i
\* on that holds no white space, Len(s) + 1 if there is none
RECURSIVE SkipWhiteSpace(_, _)
SkipWhiteSpace(s, i) ==
    IF i > Len(s) THEN Len(s) + 1
    ELSE IF IsWhiteSpace(s[i]) THEN SkipWhiteSpace(s, i + 1)
    ELSE i

\* where \S+ stops when it starts at position i, which holds no white space:
\* the last position of the run
RECURSIVE RunEnd(_, _)
RunEnd(s, i) ==
    IF i < Len(s) /\ ~IsWhiteSpace(s[i + 1]) THEN RunEnd(s, i + 1) ELSE i

Holds(s, i, c) == i <= Len(s) /\ s[i] = c

Null == <<"<null>">>

\* ENDPOINT_ID_RE tried at position p: the capture group, Null if it does
\* not match there.  multiline says whether ^ and $ also match at line
\* terminators.
MatchEndpointIdAt(text, p, multiline) ==
    LET hash == SkipWhiteSpace(text, p)
        tag == SkipWhiteSpace(text, hash + 1)
        colon == SkipWhiteSpace(text, tag + 1)
        first == SkipWhiteSpace(text, colon + 1)
        last == RunEnd(text, first)
        rest == SkipWhiteSpace(text, last + 1)
    IN IF /\ (p = 1 \/ (multiline /\ p > 1 /\ IsLineTerminator(text[p - 1])))
          /\ Holds(text, hash, "#")
          /\ Holds(text, tag, ENDPOINT_ID_TAG)
          /\ Holds(text, colon, ":")
          /\ first <= Len(text)
          /\ (\/ rest = Len(text) + 1
              \/ /\ multiline
                 /\ \E m \in (last + 1)..(rest - 1) :
                        IsLineTerminator(text[m]))
       THEN SubSeq(text, first, last)
       ELSE Null

MatchEndpointId(text, multiline) ==
    LET starts == {p \in 1..Len(text) :
                        MatchEndpointIdAt(text, p, multiline) # Null}
    IN IF starts = {} THEN Null
       ELSE MatchEndpointIdAt(text,
                CHOOSE p \in starts : \A q \in starts : p <= q, multiline)

\* slip: the pattern is built without the m flag
extractEndpointIdFromHttpDocument_NoMultiline(text) ==
    MatchEndpointId(text, FALSE)

extractEndpointIdFromHttpDocument(text) == MatchEndpointId(text, TRUE)

\* text.split(/\r?\n/)
RECURSIVE SplitLines(_, _)
SplitLines(text, line) ==
    IF text = <<>> THEN <<line>>
    ELSE IF Head(text) = "LF"
    THEN <<line>> \o SplitLines(Tail(text), <<>>)
    ELSE IF Head(text) = "CR" /\ Len(text) > 1 /\ text[2] = "LF"
    THEN <<line>> \o SplitLines(Tail(Tail(text)), <<>>)
    ELSE SplitLines(Tail(text), Append(line, Head(text)))

\* lines.join("\n")
RECURSIVE JoinLines(_)
JoinLines(lines) ==
    IF lines = <<>> THEN <<>>
    ELSE IF Len(lines) = 1 THEN lines[1]
    ELSE lines[1] \o <<"LF">> \o JoinLines(Tail(lines))

\* WATCHAPI_TITLE_RE.test(line)
IsWatchApiTitle(line) ==
    LET hash == SkipWhiteSpace(line, 1)
        watch == SkipWhiteSpace(line, hash + 3)
        request == SkipWhiteSpace(line, watch + 1)
    IN /\ Holds(line, hash, "#")
       /\ Holds(line, hash + 1, "#")
       /\ Holds(line, hash + 2, "#")
       /\ Holds(line, watch, "WatchAPI")
       /\ request > watch + 1
       /\ Holds(line, request, "Request")
       /\ SkipWhiteSpace(line, request + 1) = Len(line) + 1

\* lines.findIndex(...), 0 for -1
TitleIndex(lines) ==
    LET titles == {k \in 1..Len(lines) : IsWatchApiTitle(lines[k])}
    IN IF titles = {} THEN 0
       ELSE CHOOSE k \in titles : \A j \in titles : k <= j

TagLine(id) == <<"#", " ", ENDPOINT_ID_TAG, ":", " ">> \o id

\* line.trim() !== ""
IsBlank(line) == SkipWhiteSpace(line, 1) = Len(line) + 1

\* lines.splice(at, 0, line), at counted from 1
InsertLine(lines, at, line) ==
    SubSeq(lines, 1, at - 1) \o <<line>> \o SubSeq(lines, at, Len(lines))

\* the lines of ensureEndpointIdInHttpDocument after its early return
InsertEndpointId(text, id) ==
    LET lines == SplitLines(text, <<>>)
        titleIndex == TitleIndex(lines)
        tagged == InsertLine(lines, titleIndex + 1, TagLine(id))
    IN IF titleIndex # 0
       THEN IF /\ titleIndex + 2 <= Len(tagged)
               /\ ~IsBlank(tagged[titleIndex + 2])
            THEN JoinLines(InsertLine(tagged, titleIndex + 2, <<>>))
            ELSE JoinLines(tagged)
       ELSE IF Holds(text, 1, "LF")
            THEN TagLine(id) \o <<"LF">> \o Tail(text)
            ELSE TagLine(id) \o <<"LF">> \o text

\* slip: no look for a tag that is already there
ensureEndpointIdInHttpDocument_AlwaysInsert(text, id) ==
    InsertEndpointId(text, id)

ensureEndpointIdInHttpDocument(text, id) ==
    IF extractEndpointIdFromHttpDocument(text) # Null THEN text
    ELSE InsertEndpointId(text, id)

\* how many lines a document is given
MaxLines == 3

\* the lines a document is written from
HttpLines ==
    { <<"#", "#", "#", " ", "WatchAPI", " ", "Request">>,
      <<" ", "#", "#", "#", "WatchAPI", " ", "CR", "Request", " ">>,
      <<>>,
      <<"GET", " ", "x">>,
      <<"x">>,
      <<"#">>,
      <<"#", " ", ENDPOINT_ID_TAG, ":">>,
      <<"#", ENDPOINT_ID_TAG, " ", ":", "x", " ">> }

LineBreaks == {<<"LF">>, <<"CR", "LF">>}

EndpointIds ==
    {<<>>, <<"e">>, <<"e", "1">>, <<"e", " ", "1">>, <<" ", "e">>}

HttpInit ==
    /\ httpText = <<>>
    /\ nLines = 0
    /\ hpc = "edit"
    /\ endpointId = <<>>
    /\ ensuredText = <<>>
    /\ roundTrip = Null
    /\ ensuredAgain = <<>>

HttpFrame ==
    UNCHANGED <<normVars, fileVars, trpcVars, payloadVars, detectVars,
                entryVars, routerDetVars, moreVars>>

\* the document gets its first line
WriteFirstLine(line) ==
    /\ component = "none"
    /\ component' = "http"
    /\ httpText' = line
    /\ nLines' = 1
    /\ UNCHANGED <<hpc, endpointId, ensuredText, roundTrip, ensuredAgain>>
    /\ HttpFrame

\* the document gets one more line
WriteLine(break, line) ==
    /\ component = "http"
    /\ hpc = "edit"
    /\ nLines < MaxLines
    /\ httpText' = httpText \o break \o line
    /\ nLines' = nLines + 1
    /\ UNCHANGED <<component, hpc, endpointId, ensuredText, roundTrip,
                   ensuredAgain>>
    /\ HttpFrame

EnsureEndpointId(id) ==
    /\ component = "http"
    /\ hpc = "edit"
    /\ endpointId' = id
    /\ ensuredText' = ensureEndpointIdInHttpDocument(httpText, id)
    /\ roundTrip' = extractEndpointIdFromHttpDocument(
                        ensureEndpointIdInHttpDocument(httpText, id))
    /\ hpc' = "ensured"
    /\ UNCHANGED <<component, httpText, nLines, ensuredAgain>>
    /\ HttpFrame

\* the function is called once more, on what it returned
EnsureAgain(id) ==
    /\ component = "http"
    /\ hpc = "ensured"
    /\ ensuredAgain' = ensureEndpointIdInHttpDocument(ensuredText, id)
    /\ hpc' = "again"
    /\ UNCHANGED <<component, httpText, nLines, endpointId, ensuredText,
                   roundTrip>>
    /\ HttpFrame

NextHttp ==
    \/ \E line \in HttpLines : WriteFirstLine(line)
    \/ \E break \in LineBreaks, line \in HttpLines : WriteLine(break, line)
    \/ \E id \in EndpointIds : EnsureEndpointId(id)
    \/ \E id \in EndpointIds : EnsureAgain(id)

(***************************************************************************)
(* AuthService (modules/auth/auth.service)                                 *)
(*                                                                         *)
(* Every activation of refreshAccessToken is a call with a position; one   *)
(* action is the code that runs between two awaits.  parent is the call    *)
(* whose refresh request was answered 401 and whose fetch invoked the      *)
(* refresh handler, 0 for a call from anywhere else.                       *)
(***************************************************************************)
\* how many activations of refreshAccessToken there are at a time
MaxCalls == 3

\* the warnings counted before the count stops
MaxWarnings == 2

Calls == 1..MaxCalls

NoToken == "<none>"

IdleCall == [pc |-> "idle", parent |-> 0]

\* the positions between `this.isRefreshing = true` and the finally block
InRefresh ==
    {"getRefreshToken", "request", "handler", "retry", "store", "stored",
     "catch", "expired", "warning"}

\* where a call stands after the lines before its first await
Entered(refreshing) == IF refreshing THEN "waiting" ELSE "getRefreshToken"

\* slip: the flag is not raised
IsRefreshingAfterEntry_NotRaised(refreshing) == refreshing

\* isRefreshing once a call has run the lines before its first await
IsRefreshingAfterEntry(refreshing) == TRUE

\* slip: the notification flag is not raised
HasShownAfterWarning_NotRaised(shown) == shown

\* hasShownExpiryNotification once handleExpiredRefreshToken went past its
\* check
HasShownAfterWarning(shown) == TRUE

\* the call c settles with result: it is over, and the fetch of its parent
\* goes on, with the retry of the request if the handler resolved to true
\* and with the 401 response, which the client throws on, if not
Settle(cs, c, result) ==
    LET p == cs[c].parent
        over == [cs EXCEPT ![c] = IdleCall]
    IN IF p = 0 THEN over
       ELSE [over EXCEPT ![p].pc = IF result THEN "retry" ELSE "catch"]

AuthInit ==
    /\ isRefreshing = FALSE
    /\ hasShownExpiryNotification = FALSE
    /\ jwtToken = NoToken
    /\ refreshTokenStored = FALSE
    /\ userInfo = FALSE
    /\ calls = [c \in Calls |-> IdleCall]
    /\ warnings = 0
    /\ message = [text |-> "none", isAuthenticated |-> FALSE]

AuthFrame ==
    UNCHANGED <<parserVars, clientVars, lensVars, cacheVars, uploadVars>>

AuthStep ==
    /\ component \in {"none", "auth"}
    /\ component' = "auth"
    /\ AuthFrame

\* refreshAccessToken is called: by initialize, or by the 401 handler of a
\* request other than the refresh request
RefreshAccessToken(c) ==
    /\ AuthStep
    /\ calls[c].pc = "idle"
    /\ calls' = [calls EXCEPT ![c] = [pc |-> Entered(isRefreshing),
                                      parent |-> 0]]
    /\ isRefreshing' = IsRefreshingAfterEntry(isRefreshing)
    /\ UNCHANGED <<hasShownExpiryNotification, jwtToken, refreshTokenStored,
                   userInfo, warnings, message>>

\* the second has passed
TimerFires(c) ==
    /\ AuthStep
    /\ calls[c].pc = "waiting"
    /\ calls' = Settle(calls, c,
                       IF isRefreshing THEN FALSE ELSE jwtToken # NoToken)
    /\ UNCHANGED <<isRefreshing, hasShownExpiryNotification, jwtToken,
                   refreshTokenStored, userInfo, warnings, message>>

\* getRefreshToken has resolved
GetRefreshToken(c) ==
    /\ AuthStep
    /\ calls[c].pc = "getRefreshToken"
    /\ IF refreshTokenStored
       THEN /\ calls' = [calls EXCEPT ![c].pc = "request"]
            /\ UNCHANGED isRefreshing
       ELSE /\ calls' = Settle(calls, c, FALSE)
            /\ isRefreshing' = FALSE
    /\ UNCHANGED <<hasShownExpiryNotification, jwtToken, refreshTokenStored,
                   userInfo, warnings, message>>

\* the refresh request is answered with the new tokens
RespondOk(c) ==
    /\ AuthStep
    /\ calls[c].pc \in {"request", "retry"}
    /\ calls' = [calls EXCEPT ![c].pc = "store"]
    /\ UNCHANGED <<isRefreshing, hasShownExpiryNotification, jwtToken,
                   refreshTokenStored, userInfo, warnings, message>>

\* the refresh request fails: no answer, an error answer, or 401 for the
\* retry, which fetch returns as it is
RespondError(c) ==
    /\ AuthStep
    /\ calls[c].pc \in {"request", "retry"}
    /\ calls' = [calls EXCEPT ![c].pc = "catch"]
    /\ UNCHANGED <<isRefreshing, hasShownExpiryNotification, jwtToken,
                   refreshTokenStored, userInfo, warnings, message>>

\* the refresh request is answered 401: fetch invokes the refresh handler,
\* which is refreshAccessToken again, as the call d
RespondUnauthorized(c, d) ==
    /\ AuthStep
    /\ calls[c].pc = "request"
    /\ calls[d].pc = "idle"
    /\ calls' = [calls EXCEPT ![c].pc = "handler",
                              ![d] = [pc |-> Entered(isRefreshing),
                                      parent |-> c]]
    /\ isRefreshing' = IsRefreshingAfterEntry(isRefreshing)
    /\ UNCHANGED <<hasShownExpiryNotification, jwtToken, refreshTokenStored,
                   userInfo, warnings, message>>

\* storeToken and storeRefreshToken
StoreTokens(c) ==
    /\ AuthStep
    /\ calls[c].pc = "store"
    /\ jwtToken' = "refreshed"
    /\ refreshTokenStored' = TRUE
    /\ calls' = [calls EXCEPT ![c].pc = "stored"]
    /\ UNCHANGED <<isRefreshing, hasShownExpiryNotification, userInfo,
                   warnings, message>>

\* the flag is reset, true is returned, the finally block runs
Succeed(c) ==
    /\ AuthStep
    /\ calls[c].pc = "stored"
    /\ hasShownExpiryNotification' = FALSE
    /\ warnings' = 0
    /\ isRefreshing' = FALSE
    /\ calls' = Settle(calls, c, TRUE)
    /\ UNCHANGED <<jwtToken, refreshTokenStored, userInfo, message>>

\* catch: handleExpiredRefreshToken starts with clearSession
ClearSession(c) ==
    /\ AuthStep
    /\ calls[c].pc = "catch"
    /\ jwtToken' = NoToken
    /\ refreshTokenStored' = FALSE
    /\ userInfo' = FALSE
    /\ calls' = [calls EXCEPT ![c].pc = "expired"]
    /\ UNCHANGED <<isRefreshing, hasShownExpiryNotification, warnings,
                   message>>

\* handleExpiredRefreshToken after clearSession: the warning is skipped or
\* shown
HandleExpiredRefreshToken(c) ==
    /\ AuthStep
    /\ calls[c].pc = "expired"
    /\ IF hasShownExpiryNotification
       THEN /\ calls' = Settle(calls, c, FALSE)
            /\ isRefreshing' = FALSE
            /\ UNCHANGED <<hasShownExpiryNotification, warnings>>
       ELSE /\ warnings < MaxWarnings
            /\ hasShownExpiryNotification' =
                    HasShownAfterWarning(hasShownExpiryNotification)
            /\ warnings' = warnings + 1
            /\ calls' = [calls EXCEPT ![c].pc = "warning"]
            /\ UNCHANGED isRefreshing
    /\ UNCHANGED <<jwtToken, refreshTokenStored, userInfo, message>>

\* the user answers the warning; false is returned, the finally block runs
AnswerWarning(c) ==
    /\ AuthStep
    /\ calls[c].pc = "warning"
    /\ calls' = Settle(calls, c, FALSE)
    /\ isRefreshing' = FALSE
    /\ UNCHANGED <<hasShownExpiryNotification, jwtToken, refreshTokenStored,
                   userInfo, warnings, message>>

\* handleAuthCallback(uri): token and refreshToken say whether the query
\* names them, me is what trpc.getMe() settles with
HandleAuthCallback(path, token, refreshToken, me) ==
    /\ AuthStep
    /\ IF path # "/callback"
       THEN UNCHANGED <<jwtToken, refreshTokenStored, userInfo, message>>
       ELSE IF ~token
       THEN /\ message' = [text |-> "Sign-in failed. Please try again.",
                           isAuthenticated |-> jwtToken # NoToken /\ userInfo]
            /\ UNCHANGED <<jwtToken, refreshTokenStored, userInfo>>
       ELSE /\ jwtToken' = IF me = "user" THEN "callback" ELSE NoToken
            /\ refreshTokenStored' =
                    IF me = "user" THEN (refreshToken \/ refreshTokenStored)
                    ELSE FALSE
            /\ userInfo' = (me = "user")
            /\ message' = [text |-> "Successfully signed in to WatchAPI",
                           isAuthenticated |->
                                jwtToken' # NoToken /\ userInfo']
    /\ UNCHANGED <<isRefreshing, hasShownExpiryNotification, calls, warnings>>

NextAuth ==
    \/ \E c \in Calls : RefreshAccessToken(c)
    \/ \E c \in Calls : TimerFires(c)
    \/ \E c \in Calls : GetRefreshToken(c)
    \/ \E c \in Calls : RespondOk(c)
    \/ \E c \in Calls : RespondError(c)
    \/ \E c, d \in Calls : RespondUnauthorized(c, d)
    \/ \E c \in Calls : StoreTokens(c)
    \/ \E c \in Calls : Succeed(c)
    \/ \E c \in Calls : ClearSession(c)
    \/ \E c \in Calls : HandleExpiredRefreshToken(c)
    \/ \E c \in Calls : AnswerWarning(c)
    \/ \E path \in {"/callback", "/other"}, token, refreshToken \in BOOLEAN,
          me \in {"user", "null", "throws"} :
            HandleAuthCallback(path, token, refreshToken, me)

(***************************************************************************)
(* ApiClient: the fetch of the tRPC link (api/trpc-client)                 *)
(***************************************************************************)
\* how many requests are under way at a time
MaxRequests == 2

Requests == 1..MaxRequests

\* the authorization header of a request: none, the token read when the
\* request was built, the token read after the refresh
Authorizations == {"<none>", "old", "new"}

Statuses == {200, 401, 500}

IdleRequest ==
    [pc |-> "idle", sends |-> 0, handlerCalls |-> 0, refreshed |-> "none",
     original |-> "<none>", newToken |-> "<none>",
     authorization |-> "<none>", first |-> 0, outcome |-> "none",
     status |-> 0]

\* slip: the request is retried whatever the handler resolved to
AfterRefreshHandler_AlwaysRetry(refreshed) == "getAuthToken"

\* where fetch goes on once the refresh handler resolved
AfterRefreshHandler(refreshed) ==
    IF refreshed THEN "getAuthToken" ELSE "returned"

\* the headers of the retry: the authorization of the new token when there
\* is one, the headers of the request as they were if not
RetryAuthorization(authorization, newToken) ==
    IF newToken # "<none>" THEN newToken ELSE authorization

ClientInit == requests = [r \in Requests |-> IdleRequest]

ClientFrame ==
    UNCHANGED <<parserVars, authVars, lensVars, cacheVars, uploadVars>>

ClientStep ==
    /\ component \in {"none", "client"}
    /\ component' = "client"
    /\ ClientFrame

\* the link calls fetch(url, options); headers() gave the authorization
Fetch(r, authorization) ==
    /\ ClientStep
    /\ requests[r].pc = "idle"
    /\ requests' = [requests EXCEPT ![r] =
                        [IdleRequest EXCEPT !.pc = "sent", !.sends = 1,
                                            !.original = authorization,
                                            !.authorization = authorization]]

\* the first response arrives; a 401 makes fetch invoke the refresh handler
Respond(r, status) ==
    /\ ClientStep
    /\ requests[r].pc = "sent"
    /\ requests' = [requests EXCEPT ![r] =
            IF status = 401
            THEN [requests[r] EXCEPT !.pc = "handler", !.first = status,
                                     !.handlerCalls = 1]
            ELSE [requests[r] EXCEPT !.pc = "returned", !.first = status,
                                     !.outcome = "first",
                                     !.status = status]]

\* the first fetch rejects: NetworkError is thrown
NetworkFails(r) ==
    /\ ClientStep
    /\ requests[r].pc = "sent"
    /\ requests' = [requests EXCEPT ![r].pc = "threw",
                                    ![r].outcome = "NetworkError"]

\* the refresh handler resolves
RefreshHandlerResolves(r, refreshed) ==
    /\ ClientStep
    /\ requests[r].pc = "handler"
    /\ requests' = [requests EXCEPT ![r] =
            IF AfterRefreshHandler(refreshed) = "returned"
            THEN [requests[r] EXCEPT
                    !.pc = "returned",
                    !.refreshed = IF refreshed THEN "true" ELSE "false",
                    !.outcome = "first",
                    !.status = requests[r].first]
            ELSE [requests[r] EXCEPT
                    !.pc = "getAuthToken",
                    !.refreshed = IF refreshed THEN "true" ELSE "false"]]

\* the refresh handler rejects: the catch throws NetworkError
RefreshHandlerRejects(r) ==
    /\ ClientStep
    /\ requests[r].pc = "handler"
    /\ requests' = [requests EXCEPT ![r].pc = "threw",
                                    ![r].refreshed = "rejects",
                                    ![r].outcome = "NetworkError"]

\* getAuthToken resolves and the request is sent again
Retry(r, newToken) ==
    /\ ClientStep
    /\ requests[r].pc = "getAuthToken"
    /\ requests' = [requests EXCEPT ![r] =
            [requests[r] EXCEPT
                !.pc = "retried",
                !.sends = requests[r].sends + 1,
                !.newToken = newToken,
                !.authorization =
                    RetryAuthorization(requests[r].authorization, newToken)]]

\* the response of the retry is what fetch returns
RespondRetry(r, status) ==
    /\ ClientStep
    /\ requests[r].pc = "retried"
    /\ requests' = [requests EXCEPT ![r].pc = "returned",
                                    ![r].outcome = "retry",
                                    ![r].status = status]

\* the link is done with the request
Done(r) ==
    /\ ClientStep
    /\ requests[r].pc \in {"returned", "threw"}
    /\ requests' = [requests EXCEPT ![r] = IdleRequest]

NextClient ==
    \/ \E r \in Requests, a \in {"<none>", "old"} : Fetch(r, a)
    \/ \E r \in Requests, st \in Statuses : Respond(r, st)
    \/ \E r \in Requests : NetworkFails(r)
    \/ \E r \in Requests, refreshed \in BOOLEAN :
            RefreshHandlerResolves(r, refreshed)
    \/ \E r \in Requests : RefreshHandlerRejects(r)
    \/ \E r \in Requests, t \in {"<none>", "new"} : Retry(r, t)
    \/ \E r \in Requests, st \in Statuses : RespondRetry(r, st)
    \/ \E r \in Requests : Done(r)

(***************************************************************************)
(* HttpFileCodeLensProvider (ui/execute-request/code-lens-provider)        *)
(*                                                                         *)
(* A line is what its trimmed text is to the provider: "blank", a comment  *)
(* "#" or "//", a variable "@", a separator "###", a "request" line, or    *)
(* "other" for a header or body line.  Lines are counted from 1.           *)
(***************************************************************************)
\* how many lines a document has
MaxDocLines == 4

LineKinds == {"blank", "#", "//", "@", "###", "request", "other"}

\* line === "" || startsWith("#") || startsWith("//") || startsWith("@")
IsPreamble(kind) == kind \in {"blank", "#", "//", "@", "###"}

\* startsWith("###") || the method pattern matches
IsNextRequest(kind) == kind \in {"###", "request"}

\* the first loop of extractRequestBlock, at line i
RECURSIVE ScanBackwards(_, _, _, _)
ScanBackwards(lines, start, i, acc) ==
    IF i < 1 THEN acc
    ELSE IF IsPreamble(lines[i])
    THEN ScanBackwards(lines, start, i - 1, <<i>> \o acc)
    ELSE IF i = start THEN Append(acc, i)
    ELSE acc

\* the second loop of extractRequestBlock, at line i
RECURSIVE ScanForwards(_, _, _, _)
ScanForwards(lines, i, inBody, acc) ==
    IF i > Len(lines) THEN acc
    ELSE IF IsNextRequest(lines[i]) THEN acc
    ELSE LET body == inBody \/ lines[i] = "blank"
         IN IF /\ body
               /\ lines[i] = "blank"
               /\ i + 1 <= Len(lines)
               /\ IsNextRequest(lines[i + 1])
            THEN Append(acc, i)
            ELSE ScanForwards(lines, i + 1, body, Append(acc, i))

extractRequestBlock(lines, start) ==
    ScanForwards(lines, start + 1, FALSE,
                 ScanBackwards(lines, start, start, <<>>))

LensInit ==
    /\ docLines = <<>>
    /\ startIndex = 0
    /\ block = <<>>
    /\ lpc = "edit"

LensFrame ==
    UNCHANGED <<parserVars, authVars, clientVars, cacheVars, uploadVars>>

\* the document gets one more line
TypeLine(kind) ==
    /\ component \in {"none", "lens"}
    /\ component' = "lens"
    /\ lpc = "edit"
    /\ Len(docLines) < MaxDocLines
    /\ docLines' = Append(docLines, kind)
    /\ UNCHANGED <<startIndex, block, lpc>>
    /\ LensFrame

\* provideCodeLenses reaches the request line i
ExtractRequestBlock(i) ==
    /\ component = "lens"
    /\ lpc = "edit"
    /\ i \in 1..Len(docLines)
    /\ docLines[i] = "request"
    /\ startIndex' = i
    /\ block' = extractRequestBlock(docLines, i)
    /\ lpc' = "extracted"
    /\ UNCHANGED <<component, docLines>>
    /\ LensFrame

NextLens ==
    \/ \E kind \in LineKinds : TypeLine(kind)
    \/ \E i \in 1..MaxDocLines : ExtractRequestBlock(i)

(***************************************************************************)
(* CacheService (modules/sync/cache.service)                               *)
(*                                                                         *)
(* Two tiers: the Map memoryCache and context.workspaceState, whose keys   *)
(* are the cache keys behind the cache prefix.  workspaceState.update is   *)
(* awaited and may be rejected; a rejected update has written nothing.     *)
(* An update takes effect when it is called.  get, set and delete have no  *)
(* statement after their only await and are one step each; clear awaits    *)
(* once for every key.                                                     *)
(***************************************************************************)
\* how far the clock runs
MaxNow == 2

CacheKeys == {"k1", "k2"}

Data == {"a", "b"}

\* the time-to-live a set is called with
TTLs == {1}

UpdateOutcomes == {"stored", "rejected"}

\* Map.get and workspaceState.get of a key that is not there
NoEntry == [data |-> "<undefined>", timestamp |-> 0, ttl |-> 0]

NoGet == [key |-> "<none>", value |-> "<undefined>"]

\* now - entry.timestamp > entry.ttl
isExpired(entry, t) == t - entry.timestamp > entry.ttl

\* the orders workspaceState.keys() may list the keys S in
KeyOrders(S) ==
    {order \in [1..Cardinality(S) -> S] :
        \A i, j \in 1..Cardinality(S) : order[i] = order[j] => i = j}

\* workspaceState after update(key, entry) ended as outcome
Update(state, key, entry, outcome) ==
    IF outcome = "stored" THEN [state EXCEPT ![key] = entry] ELSE state

CacheInit ==
    /\ memoryCache = [k \in CacheKeys |-> NoEntry]
    /\ workspaceState = [k \in CacheKeys |-> NoEntry]
    /\ now = 0
    /\ clearKeys = <<>>
    /\ cpc = "idle"
    /\ pending = {}
    /\ deleted = {}
    /\ got = NoGet

CacheFrame ==
    UNCHANGED <<parserVars, authVars, clientVars, lensVars, uploadVars>>

CacheStep ==
    /\ component \in {"none", "cache"}
    /\ component' = "cache"
    /\ CacheFrame

\* Date.now() moves on
Tick ==
    /\ CacheStep
    /\ now < MaxNow
    /\ now' = now + 1
    /\ UNCHANGED <<memoryCache, workspaceState, clearKeys, cpc, pending,
                   deleted, got>>

\* get(key)
CacheGet(key) ==
    /\ CacheStep
    /\ IF memoryCache[key] # NoEntry /\ ~isExpired(memoryCache[key], now)
       THEN /\ got' = [key |-> key, value |-> memoryCache[key].data]
            /\ UNCHANGED memoryCache
       ELSE IF /\ workspaceState[key] # NoEntry
               /\ ~isExpired(workspaceState[key], now)
       THEN /\ memoryCache' = [memoryCache EXCEPT ![key] = workspaceState[key]]
            /\ got' = [key |-> key, value |-> workspaceState[key].data]
       ELSE /\ got' = [key |-> key, value |-> "<undefined>"]
            /\ UNCHANGED memoryCache
    /\ UNCHANGED <<workspaceState, now, clearKeys, cpc, pending, deleted>>

\* set(key, data, ttl)
CacheSet(key, data, ttl, outcome) ==
    /\ CacheStep
    /\ LET entry == [data |-> data, timestamp |-> now, ttl |-> ttl]
       IN /\ memoryCache' = [memoryCache EXCEPT ![key] = entry]
          /\ workspaceState' = Update(workspaceState, key, entry, outcome)
    /\ deleted' = deleted \ {key}
    /\ pending' = pending \ {key}
    /\ UNCHANGED <<now, clearKeys, cpc, got>>

\* delete(key)
CacheDelete(key, outcome) ==
    /\ CacheStep
    /\ memoryCache' = [memoryCache EXCEPT ![key] = NoEntry]
    /\ workspaceState' = Update(workspaceState, key, NoEntry, outcome)
    /\ deleted' = deleted \cup {key}
    /\ got' = NoGet
    /\ UNCHANGED <<now, clearKeys, cpc, pending>>

\* clear(), up to its first await: the memory cache is emptied and the
\* update of the first key is called
CacheClear(order, outcome) ==
    /\ CacheStep
    /\ cpc = "idle"
    /\ order \in KeyOrders({k \in CacheKeys : workspaceState[k] # NoEntry})
    /\ memoryCache' = [k \in CacheKeys |-> NoEntry]
    /\ got' = NoGet
    /\ IF order = <<>>
       THEN /\ deleted' = CacheKeys
            /\ UNCHANGED <<workspaceState, clearKeys, cpc, pending>>
       ELSE /\ workspaceState' =
                   Update(workspaceState, Head(order), NoEntry, outcome)
            /\ clearKeys' = Tail(order)
            /\ cpc' = IF outcome = "stored" THEN "clearing" ELSE "rejected"
            /\ pending' = CacheKeys
            /\ UNCHANGED deleted
    /\ UNCHANGED now

\* clear(), from the end of one await to the next: the update of the next
\* key is called
CacheClearUpdate(outcome) ==
    /\ CacheStep
    /\ cpc = "clearing"
    /\ clearKeys # <<>>
    /\ workspaceState' =
           Update(workspaceState, Head(clearKeys), NoEntry, outcome)
    /\ clearKeys' = Tail(clearKeys)
    /\ cpc' = IF outcome = "stored" THEN "clearing" ELSE "rejected"
    /\ got' = NoGet
    /\ UNCHANGED <<memoryCache, now, pending, deleted>>

\* clear() returns: after the last update, or from the catch of a rejected one
CacheClearReturns ==
    /\ CacheStep
    /\ \/ cpc = "rejected"
       \/ cpc = "clearing" /\ clearKeys = <<>>
    /\ clearKeys' = <<>>
    /\ cpc' = "idle"
    /\ deleted' = deleted \cup pending
    /\ pending' = {}
    /\ got' = NoGet
    /\ UNCHANGED <<memoryCache, workspaceState, now>>

NextCache ==
    \/ Tick
    \/ \E key \in CacheKeys : CacheGet(key)
    \/ \E key \in CacheKeys, data \in Data, ttl \in TTLs,
          outcome \in UpdateOutcomes : CacheSet(key, data, ttl, outcome)
    \/ \E key \in CacheKeys, outcome \in UpdateOutcomes :
          CacheDelete(key, outcome)
    \/ \E S \in SUBSET CacheKeys : \E order \in KeyOrders(S) :
          \E outcome \in UpdateOutcomes : CacheClear(order, outcome)
    \/ \E outcome \in UpdateOutcomes : CacheClearUpdate(outcome)
    \/ CacheClearReturns

(***************************************************************************)
(* registerFrameworkUploads (extension/register-http-client-reminder)      *)
(*                                                                         *)
(* The core API keeps what it is given: createCollection(name) adds an     *)
(* empty collection of that name, createEndpoint adds the method and url   *)
(* to the collection of the id, pullCollections lists the collections in   *)
(* the order they were made.  A collection's id is its place in that list. *)
(* One upload runs at a time, so each call of the core API is one step.    *)
(***************************************************************************)
\* how many apis a list has
MaxApis == 2

SUPPORTED_TARGETS == {"next-trpc", "next-app-router"}

\* String.prototype.trim
RECURSIVE Trim(_)
Trim(s) ==
    IF s = <<>> THEN s
    ELSE IF s[1] = " " THEN Trim(Tail(s))
    ELSE IF s[Len(s)] = " " THEN Trim(SubSeq(s, 1, Len(s) - 1))
    ELSE s

\* whether api.metadata.collection is a string and what its text is
getCollectionName(api, tgt) ==
    IF api.metadataCollection # Absent /\ Trim(api.metadataCollection) # <<>>
    THEN Trim(api.metadataCollection)
    ELSE IF api.router # Undefined /\ Trim(api.router) # <<>>
    THEN Trim(api.router)
    ELSE IF tgt = "next-app-router"
    THEN <<"Next.js Routes">>
    ELSE <<"tRPC Procedures">>

\* a || b where the operands are strings or undefined
OrElse(a, b) == IF a = Undefined \/ a = <<>> THEN b ELSE a

normalizeUrl(api) ==
    LET raw == OrElse(OrElse(api.path, api.router), api.id)
    IN IF raw = Undefined \/ raw = <<>> THEN <<"/">>
       ELSE IF StartsWith(raw, <<"/">>) THEN raw
       ELSE <<"/">> \o raw

\* `${method} ${url}`
EndpointKey(method, url) == <<method, " ">> \o url

ApiKey(api) == EndpointKey(api.method, normalizeUrl(api))

\* the apis a list is made of
Apis ==
    { [metadataCollection |-> <<" ", "users">>, router |-> <<"posts">>,
       path |-> <<"/", "a">>, id |-> <<"GET", " ", "/", "a">>,
       method |-> "GET"],
      [metadataCollection |-> <<"users">>, router |-> Undefined,
       path |-> <<"a">>, id |-> <<"a">>, method |-> "GET"],
      [metadataCollection |-> Absent, router |-> <<"posts", " ">>,
       path |-> <<>>, id |-> <<"posts", ".", "a">>, method |-> "POST"],
      [metadataCollection |-> <<" ">>, router |-> Undefined,
       path |-> Undefined, id |-> <<"a">>, method |-> "GET"] }

ApiLists == UNION {[1..n -> Apis] : n \in 1..MaxApis}

\* what the core API holds before the upload
Servers ==
    { <<>>,
      <<[name |-> <<"users">>, endpoints |-> {}]>>,
      <<[name |-> <<"users">>,
         endpoints |-> {EndpointKey("GET", <<"/", "a">>)}]>>,
      <<[name |-> <<"posts">>,
         endpoints |-> {EndpointKey("GET", <<"a">>)}]>>,
      <<[name |-> <<"users">>,
         endpoints |-> {EndpointKey("GET", <<"/", "a">>)}],
        [name |-> <<"users">>, endpoints |-> {}]>> }

CollectionNames ==
    {<<"users">>, <<"posts">>, <<"posts", " ">>, <<"Next.js Routes">>,
     <<"tRPC Procedures">>}

\* the keys of grouped, in the order they were set
RECURSIVE GroupNames(_, _, _)
GroupNames(list, tgt, acc) ==
    IF list = <<>> THEN acc
    ELSE LET name == getCollectionName(Head(list), tgt)
         IN GroupNames(Tail(list), tgt,
                       IF name \in Range(acc) THEN acc ELSE Append(acc, name))

\* grouped: every key with the apis pushed under it
Grouped(list, tgt) ==
    LET names == GroupNames(list, tgt, <<>>)
        Under(name) == LET Is(api) == getCollectionName(api, tgt) = name
                       IN SelectSeq(list, Is)
    IN [g \in 1..Len(names) |-> [name |-> names[g], apis |-> Under(names[g])]]

\* new Map(collections.map(c => [c.name, c])): the last of a name wins
ByName(cols) ==
    [name \in CollectionNames |->
        LET ids == {id \in 1..Len(cols) : cols[id].name = name}
        IN IF ids = {} THEN 0 ELSE CHOOSE id \in ids : \A o \in ids : o <= id]

\* [...grouped.keys()].filter(name => !collectionByName.has(name))
Missing(groups, byName) ==
    LET names == [g \in 1..Len(groups) |-> groups[g].name]
        IsMissing(name) == byName[name] = 0
    IN SelectSeq(names, IsMissing)

\* existingKeys.add(key)
AddKey_Forgotten(keys, key) == keys
AddKey(keys, key) == keys \cup {key}

\* the endpoint loop from (g, a) with the keys of group g: where it calls
\* createEndpoint next, or g beyond the groups when it ends
RECURSIVE Seek(_, _, _, _, _, _)
Seek(groups, cols, byName, g, a, keys) ==
    IF g > Len(groups) THEN [group |-> g, api |-> a, keys |-> {}]
    ELSE IF byName[groups[g].name] = 0 \/ a > Len(groups[g].apis)
    THEN Seek(groups, cols, byName, g + 1, 1, {})
    ELSE LET ks == IF a = 1
                   THEN cols[byName[groups[g].name]].endpoints
                   ELSE keys
         IN IF ApiKey(groups[g].apis[a]) \in ks
            THEN Seek(groups, cols, byName, g, a + 1, ks)
            ELSE [group |-> g, api |-> a, keys |-> ks]

UploadInit ==
    /\ server = <<>>
    /\ upc = "setup"
    /\ target = "next-trpc"
    /\ apis = <<>>
    /\ grouped = <<>>
    /\ pulledCollections = <<>>
    /\ collectionByName = ByName(<<>>)
    /\ missing = <<>>
    /\ groupIndex = 1
    /\ apiIndex = 1
    /\ existingKeys = {}
    /\ createdEndpoints = <<>>
    /\ createdCollections = <<>>
    /\ run = 0
    /\ firstCreated = 0

UploadFrame ==
    UNCHANGED <<parserVars, authVars, clientVars, lensVars, cacheVars>>

UploadStep ==
    /\ component = "upload"
    /\ UNCHANGED component
    /\ UploadFrame

\* what the core API holds when the command is run
Seed(cols) ==
    /\ component = "none"
    /\ component' = "upload"
    /\ UploadFrame
    /\ upc = "setup"
    /\ upc' = "idle"
    /\ server' = cols
    /\ UNCHANGED <<target, apis, grouped, pulledCollections, collectionByName,
                   missing, groupIndex, apiIndex, existingKeys,
                   createdEndpoints, createdCollections, run, firstCreated>>

\* uploadApis(target, apis), up to the first pullCollections
UploadApis(tgt, list) ==
    /\ UploadStep
    /\ upc = "idle"
    /\ target' = tgt
    /\ apis' = list
    /\ grouped' = Grouped(list, tgt)
    /\ run' = 1
    /\ upc' = "pull"
    /\ UNCHANGED <<server, pulledCollections, collectionByName, missing,
                   groupIndex, apiIndex, existingKeys, createdEndpoints,
                   createdCollections, firstCreated>>

\* the same list is uploaded a second time
UploadAgain ==
    /\ UploadStep
    /\ upc = "done"
    /\ run = 1
    /\ run' = 2
    /\ grouped' = Grouped(apis, target)
    /\ firstCreated' = Len(createdEndpoints)
    /\ createdEndpoints' = <<>>
    /\ createdCollections' = <<>>
    /\ upc' = "pull"
    /\ UNCHANGED <<server, target, apis, pulledCollections, collectionByName,
                   missing, groupIndex, apiIndex, existingKeys>>

\* pullCollections() returns
PullCollections ==
    /\ UploadStep
    /\ upc = "pull"
    /\ pulledCollections' = server
    /\ collectionByName' = ByName(server)
    /\ missing' = Missing(grouped, ByName(server))
    /\ upc' = IF Missing(grouped, ByName(server)) = <<>>
              THEN "endpoints"
              ELSE "create"
    /\ groupIndex' = 1
    /\ apiIndex' = 1
    /\ existingKeys' = {}
    /\ UNCHANGED <<server, target, apis, grouped, createdEndpoints,
                   createdCollections, run, firstCreated>>

\* createCollection(name) for the next missing name
CreateCollection ==
    /\ UploadStep
    /\ upc = "create"
    /\ server' = Append(server, [name |-> Head(missing), endpoints |-> {}])
    /\ createdCollections' = Append(createdCollections, Head(missing))
    /\ missing' = Tail(missing)
    /\ upc' = IF Tail(missing) = <<>> THEN "repull" ELSE "create"
    /\ UNCHANGED <<target, apis, grouped, pulledCollections, collectionByName,
                   groupIndex, apiIndex, existingKeys, createdEndpoints,
                   run, firstCreated>>

\* the pullCollections() after the missing collections were created
PullAgain ==
    /\ UploadStep
    /\ upc = "repull"
    /\ pulledCollections' = server
    /\ collectionByName' =
           [name \in CollectionNames |->
               IF ByName(server)[name] # 0
               THEN ByName(server)[name]
               ELSE collectionByName[name]]
    /\ upc' = "endpoints"
    /\ UNCHANGED <<server, target, apis, grouped, missing, groupIndex,
                   apiIndex, existingKeys, createdEndpoints,
                   createdCollections, run, firstCreated>>

\* the endpoint loop runs up to its next createEndpoint
CreateEndpoint ==
    /\ UploadStep
    /\ upc = "endpoints"
    /\ LET at == Seek(grouped, pulledCollections, collectionByName, groupIndex,
                      apiIndex, existingKeys)
       IN /\ at.group <= Len(grouped)
          /\ LET id == collectionByName[grouped[at.group].name]
                 key == ApiKey(grouped[at.group].apis[at.api])
             IN /\ server' = [server EXCEPT ![id].endpoints =
                                 server[id].endpoints \cup {key}]
                /\ createdEndpoints' =
                       Append(createdEndpoints, [id |-> id, key |-> key])
                /\ existingKeys' = AddKey(at.keys, key)
          /\ groupIndex' = at.group
          /\ apiIndex' = at.api + 1
    /\ UNCHANGED <<upc, target, apis, grouped, pulledCollections, collectionByName,
                   missing, createdCollections, run, firstCreated>>

\* the endpoint loop runs to its end
UploadReturns ==
    /\ UploadStep
    /\ upc = "endpoints"
    /\ Seek(grouped, pulledCollections, collectionByName, groupIndex, apiIndex,
            existingKeys).group > Len(grouped)
    /\ upc' = "done"
    /\ UNCHANGED <<server, target, apis, grouped, pulledCollections,
                   collectionByName, missing, groupIndex, apiIndex,
                   existingKeys, createdEndpoints, createdCollections, run,
                   firstCreated>>

NextUpload ==
    \/ \E cols \in Servers : Seed(cols)
    \/ \E tgt \in SUPPORTED_TARGETS, list \in ApiLists : UploadApis(tgt, list)
    \/ UploadAgain
    \/ PullCollections
    \/ CreateCollection
    \/ PullAgain
    \/ CreateEndpoint
    \/ UploadReturns

Init ==
    /\ component = "none"
    /\ NormInit
    /\ FileInit
    /\ TrpcInit
    /\ PayloadInit
    /\ DetectInit
    /\ EntryInit
    /\ RouterDetInit
    /\ HttpInit
    /\ AuthInit
    /\ ClientInit
    /\ LensInit
    /\ CacheInit
    /\ UploadInit

(***************************************************************************)
(* Properties of the normalizer                                            *)
(***************************************************************************)
IsBracket(ch) == ch \in {"[", "]"}

\* first bracket character of s at or after k, 0 if none
FirstBracket(s, k) ==
    IF \E j \in k..Len(s) : IsBracket(s[j])
    THEN CHOOSE j \in k..Len(s) :
            IsBracket(s[j]) /\ \A m \in k..(j - 1) : ~IsBracket(s[m])
    ELSE 0

\* every bracket of s belongs to a segment [name], [...name] or [[...name]]
\* whose name is non-empty and free of brackets
RECURSIVE WellBracketedFrom(_, _)
WellBracketedFrom(s, i) ==
    IF i > Len(s) THEN TRUE
    ELSE IF ~IsBracket(s[i]) THEN WellBracketedFrom(s, i + 1)
    ELSE IF s[i] = "]" THEN FALSE
    ELSE IF HasAt(s, i, <<"[", "[">>)
    THEN /\ HasAt(s, i, <<"[", "[", ".", ".", ".">>)
         /\ LET j == FirstBracket(s, i + 5)
            IN /\ j > i + 5
               /\ HasAt(s, j, <<"]", "]">>)
               /\ WellBracketedFrom(s, j + 2)
    ELSE LET j == FirstBracket(s, i + 1)
         IN /\ j > i + 1
            /\ s[j] = "]"
            /\ ~(HasAt(s, i, <<"[", ".", ".", ".">>) /\ j = i + 4)
            /\ WellBracketedFrom(s, j + 1)

WellBracketed(s) == WellBracketedFrom(s, 1)

\* C2 as stated: for every path string, of any mix of brackets, dots,
\* slashes and name characters, normalizing the normalized path changes
\* nothing.
C2_IdempotentAnyString == npc = "twice" => twice = converted

\* C2 amended: normalization is idempotent on every path whose brackets all
\* belong to well-formed [name], [...name] or [[...name]] segments.
C2_IdempotentWellBracketed ==
    (npc = "twice" /\ WellBracketed(routePath)) => twice = converted

C2_Witness ==
    /\ npc = "twice"
    /\ WellBracketed(routePath)
    /\ routePath = <<"[", "[", ".", ".", ".", "a", "]", "]">>
    /\ twice = <<":", "a", "*", "?">>

\* the canonical token of one component
ExpectedPart(c) ==
    CASE c.kind = "static" -> c.name
      [] c.kind = "param" -> <<":">> \o c.name
      [] c.kind = "catchAll" -> <<":">> \o c.name \o <<"*">>
      [] c.kind = "optCatchAll" -> <<":">> \o c.name \o <<"*", "?">>

ExpectedPath(cs) ==
    Concat([n \in 1..Len(cs) |-> <<"/">> \o ExpectedPart(cs[n])])

\* C3: [[...name]] becomes :name*?, [...name] becomes :name* and [name]
\* becomes :name, each form by its own token and never by another form's.
C3_OrderCorrect ==
    (npc # "build" /\ parts # <<>>) => converted = ExpectedPath(parts)

C3_Witness ==
    /\ npc = "converted"
    /\ \E i, j, k \in 1..Len(parts) :
            /\ parts[i].kind = "optCatchAll"
            /\ parts[j].kind = "catchAll"
            /\ parts[k].kind = "param"
    /\ converted = ExpectedPath(parts)

RECURSIVE ExpectedSegments(_)
ExpectedSegments(cs) ==
    IF cs = <<>> THEN <<>>
    ELSE LET c == Head(cs)
         IN (IF c.kind = "static" THEN <<>>
             ELSE <<[name |-> c.name,
                     isCatchAll |-> c.kind \in {"catchAll", "optCatchAll"},
                     isOptional |-> c.kind = "optCatchAll"]>>)
            \o ExpectedSegments(Tail(cs))

\* C4: extractDynamicSegments returns one DynamicSegment per bracketed
\* component, with isCatchAll and isOptional matching the component's form.
C4_SegmentFlags ==
    (npc # "build" /\ parts # <<>>) => dynSegments = ExpectedSegments(parts)

(***************************************************************************)
(* Properties of the file router                                           *)
(***************************************************************************)
\* positions of directory d on the way down to the file
DirPositions(d) == {k \in 1..Len(dirs) : dirs[k] = d}

\* base name of f without its .ts / .js extension
BaseName(f) == StripTsJs(f, <<".">>)

\* the path made of the given components, each bracketed one converted
SlashPath(cs) ==
    Concat([n \in 1..Len(cs) |-> <<"/">> \o convertDynamicSegments(cs[n])])

\* the file is .../app/<segments>/route.<ext>, under a single app directory
IsAppRouteFile ==
    /\ Cardinality(DirPositions(S_app)) = 1
    /\ fileName \in {S_route_ts, S_route_js}

AppSegments ==
    LET k == CHOOSE k \in DirPositions(S_app) : TRUE
    IN SubSeq(dirs, k + 1, Len(dirs))

\* the file is .../pages/api/<segments>.<ext>, under a single pages directory
IsPagesApiFile ==
    /\ Cardinality(DirPositions(S_pages)) = 1
    /\ \E k \in DirPositions(S_pages) : k < Len(dirs) /\ dirs[k + 1] = S_api
    /\ fileName # <<>>

PagesSegments ==
    LET k == CHOOSE k \in DirPositions(S_pages) : TRUE
        below == SubSeq(dirs, k + 1, Len(dirs))
    IN IF BaseName(fileName) = <<"i", "n", "d", "e", "x">> THEN below
       ELSE Append(below, BaseName(fileName))

\* C1: every route path that extractRoutePath produces for an App Router or
\* Pages Router file begins with "/".
C1_RoutePathStartsWithSlash ==
    (fpc # "path" /\ (detection.isAppRouter \/ detection.isPagesRouter))
        => StartsWith(detection.routePath, <<"/">>)

\* C5: for .../app/<segments>/route.<ext> the route path is "/" followed by
\* the converted segments, and the handlers are exactly the verb-named
\* exported functions and function-valued variables.
C5_AppRouterRoutes ==
    (fpc = "detected" /\ detection.isAppRouter /\ IsAppRouteFile)
        => /\ detection.routePath =
                (IF AppSegments = <<>> THEN <<"/">>
                 ELSE SlashPath(AppSegments))
           /\ handlers =
                {n \in DOMAIN exports :
                    /\ n \in Range(APP_ROUTER_METHODS)
                    /\ exports[n] \in {"exportedFunction", "exportedArrow"}}

\* C6: for .../pages/api/<segments>.<ext> the route path is /api/<segments>
\* with a trailing index collapsed, and the method list holds, without
\* duplicates, exactly the verbs compared with === or listed in case labels,
\* or is [GET] when there are none.
C6_PagesRouterRoutes ==
    (fpc # "path" /\ IsPagesApiFile)
        => /\ detection.isPagesRouter
           /\ detection.routePath = SlashPath(PagesSegments)
           /\ fpc = "detected" =>
                LET verbs == {handlerText[n].verb : n \in
                                {m \in 1..Len(handlerText) :
                                    handlerText[m].kind \in {"eq", "case"}}}
                IN /\ Cardinality(Range(methods)) = Len(methods)
                   /\ IF verbs = {} THEN methods = <<"GET">>
                      ELSE Range(methods) = verbs

\* C7: every .query('<p>') yields exactly one GET route and every
\* .mutation('<p>') exactly one POST route, with path
\* /api/trpc/<router>.<p>, <router> being the normalized name of the router.
C7_ProcedureRoutes ==
    tpc = "parsed" =>
        LET router == normalizeRouterName(routerVar)
            expected(kind, method) ==
                RoutesOfKind(procedures, kind, method, router)
        IN /\ \A p \in Range(procedures) :
                p.kind \in {"query", "mutation"} =>
                    \E r \in Range(trpcRoutes) :
                        /\ r.method = (IF p.kind = "query" THEN "GET"
                                       ELSE "POST")
                        /\ r.path = S_apiTrpc \o router \o <<".">> \o p.name
           /\ Len(trpcRoutes) =
                Cardinality({k \in 1..Len(procedures) :
                                procedures[k].kind \in {"query", "mutation"}})

\* C26: a route that came from a .query(...) definition is converted to a
\* GET route and a route that came from a .mutation(...) definition to a
\* POST route, the path staying as it was.
C26_QueryGetMutationPost ==
    tpc = "converted" =>
        /\ Len(httpRoutes) = Len(trpcRoutes)
        /\ \A n \in 1..Len(trpcRoutes) :
                /\ httpRoutes[n].method = trpcRoutes[n].method
                /\ httpRoutes[n].path = trpcRoutes[n].path

(***************************************************************************)
(* Payload CMS: properties                                                 *)
(***************************************************************************)
\* the config holds one collection only, flagged neither auth nor upload
SinglePlainCollection ==
    /\ Len(config.collections) = 1
    /\ config.collections[1].auth \in {"absent", "false"}
    /\ config.collections[1].upload \in {"absent", "false"}
    /\ config.globals = <<>>
    /\ config.endpoints = <<>>

\* every custom endpoint of the collection declares a method string
DeclaredMethods ==
    \A n \in 1..Len(config.collections[1].endpoints) :
        config.collections[1].endpoints[n].method # Absent

\* C8: for a single collection with auth=false and upload=false, no globals
\* and no root endpoints, the number of routes is |CRUD operations| + the
\* number of custom endpoints declared on the collection + |default
\* endpoints|, whatever the declared method strings are
C8_RouteCount ==
    (ppc = "parsed" /\ SinglePlainCollection /\ DeclaredMethods)
        => Len(payloadHandlers) =
                Len(COLLECTION_OPERATIONS)
                    + Len(config.collections[1].endpoints)
                    + Len(DEFAULT_PAYLOAD_ENDPOINTS)

\* the path suffixes of the auth operations
AuthSuffixes ==
    { <<"/", "login">>, <<"/", "logout">>, <<"/", "refresh-token">>,
      <<"/", "me">>, <<"/", "forgot-password">>, <<"/", "reset-password">>,
      <<"/", "unlock">>, <<"/", "verify", "/", ":token">> }

\* the routes at positions k+1 .. k+n of hs are the auth routes of the
\* collection at base path base
IsAuthRun(hs, k, n, base, slug) ==
    /\ \A j \in (k + 1)..(k + n) :
            /\ hs[j].source = "collection"
            /\ hs[j].collectionSlug = slug
            /\ StartsWith(hs[j].path, base)
            /\ DropFirst(hs[j].path, Len(base)) \in AuthSuffixes
    /\ {DropFirst(hs[j].path, Len(base)) : j \in (k + 1)..(k + n)}
            = AuthSuffixes

\* C9: switching a collection's auth flag from true to false removes the
\* |AUTH_COLLECTION_OPERATIONS| auth routes of that collection (login,
\* logout, refresh-token, me, forgot-password, reset-password, unlock,
\* verify) and leaves every other route as it was, in place
C9_AuthFlagRemovesAuthRoutes ==
    ppc = "reparsed" =>
        LET n == Len(AUTH_COLLECTION_OPERATIONS)
            slug == config.collections[edited].slug
            base == extractApiPrefix(config) \o <<"/">> \o slug
        IN /\ Len(prevHandlers) = Len(payloadHandlers) + n
           /\ \E k \in 0..Len(payloadHandlers) :
                /\ SubSeq(prevHandlers, 1, k) = SubSeq(payloadHandlers, 1, k)
                /\ SubSeq(prevHandlers, k + n + 1, Len(prevHandlers))
                        = SubSeq(payloadHandlers, k + 1,
                                 Len(payloadHandlers))
                /\ IsAuthRun(prevHandlers, k, n, base, slug)

\* the auth flag of a collection with custom endpoints, next to another
\* collection, was switched off
C9_Witness ==
    /\ ppc = "reparsed"
    /\ Len(config.collections) = 2
    /\ config.collections[edited].endpoints # <<>>
    /\ Len(payloadHandlers) > Len(COLLECTION_OPERATIONS)
    /\ Len(prevHandlers) > Len(payloadHandlers)

\* the config holds the literal { slug: "posts", auth: true } and no more
PostsAuthConfig ==
    config = [routesApi |-> Absent,
              collections |-> << [kind |-> "object", slug |-> <<"posts">>,
                                  auth |-> "true", upload |-> "absent",
                                  endpoints |-> <<>>] >>,
              globals |-> <<>>, endpoints |-> <<>>]

ApiPosts == <<"/", "api", "/", "posts">>

Positions(hs, P(_)) == {j \in 1..Len(hs) : P(hs[j])}

IdentifierNames(elements) ==
    {elements[n].name :
        n \in {m \in 1..Len(elements) : elements[m].kind = "identifier"}}

SpreadNames(elements) ==
    {elements[n].expression.name :
        n \in {m \in 1..Len(elements) : elements[m].kind = "spread"}}

\* the elements of the array a name is declared with, wherever it is written
ArrayOf(name) ==
    IF /\ InitializerOf(project[name]) # <<>>
       /\ InitializerOf(project[name])[1].kind = "array"
    THEN InitializerOf(project[name])[1].elements
    ELSE <<>>

\* the arrays reached from the spreads in frontier, each visited once
RECURSIVE ReachableArrays(_, _)
ReachableArrays(frontier, visited) ==
    IF frontier \subseteq visited THEN visited
    ELSE LET name == CHOOSE x \in frontier \ visited : TRUE
         IN ReachableArrays(frontier \cup SpreadNames(ArrayOf(name)),
                            visited \cup {name})

\* the literal a name is declared with, under any wrappers
RECURSIVE Unwrapped(_)
Unwrapped(expr) ==
    CASE expr.kind \in {"as", "satisfies", "paren"} ->
            Unwrapped(expr.expression)
      [] expr.kind = "call" -> Unwrapped(expr.arguments[1])
      [] OTHER -> expr

DeclaredLiteral(name) ==
    IF InitializerOf(project[name]) = <<>> THEN <<>>
    ELSE LET core == Unwrapped(InitializerOf(project[name])[1])
         IN IF core.kind = "object" THEN <<core>> ELSE <<>>

LiteralsIn(elements, tag) ==
    Cardinality({n \in 1..Len(elements) :
                    /\ elements[n].kind = "object"
                    /\ elements[n].slug = <<tag>>})

\* how many literals with the slug tag the elements reach, each literal
\* counted once
ReachableLiterals(elements, tag) ==
    LET arrays == ReachableArrays(SpreadNames(elements), {})
        names == IdentifierNames(elements)
                    \cup UNION {IdentifierNames(ArrayOf(a)) : a \in arrays}
        declared == {n \in names : /\ DeclaredLiteral(n) # <<>>
                                   /\ DeclaredLiteral(n)[1].slug = <<tag>>}
        InArray(a) == LiteralsIn(ArrayOf(a), tag)
    IN LiteralsIn(elements, tag) + Cardinality(declared)
        + (IF "all" \in arrays THEN InArray("all") ELSE 0)
        + (IF "more" \in arrays THEN InArray("more") ELSE 0)

\* the collections with the slug tag among the routes: one count route each
CollectionsRouted(tag) ==
    Cardinality({j \in 1..Len(payloadHandlers) :
        /\ payloadHandlers[j].source = "collection"
        /\ payloadHandlers[j].path = <<"/", "api", "/", tag, "/", "count">>})

Tags == {"users", "media", "pages", "posts"}

\* C11: when the collections of the config are a spread of an array that
\* itself holds spreads, every literal reachable through the spreads, the
\* self-referential ones included, gives its collection exactly once
C11_NestedSpreads ==
    (/\ ppc = "parsed"
     /\ config.collections = <<SpreadElement("all")>>
     /\ SpreadNames(ArrayOf("all")) # {})
        => \A tag \in Tags :
                CollectionsRouted(tag)
                    = ReachableLiterals(config.collections, tag)

\* the routes of custom endpoints at a path
EndpointsRouted(path) ==
    Cardinality({j \in 1..Len(payloadHandlers) :
        /\ payloadHandlers[j].source = "endpoint"
        /\ payloadHandlers[j].path = path})

\* C17: the root endpoints array is resolved as the endpoints array of a
\* collection is: every inline literal, identifier or spread element that
\* leads to a literal with a path and a valid method gives one route, under
\* the API prefix unless the endpoint is flagged root
C17_RootEndpointReferences ==
    ppc = "parsed" =>
        LET prefix == extractApiPrefix(config)
            resolved == extractCollectionEndpoints(
                            [kind |-> "object",
                             endpoints |-> config.endpoints])
            ResolvedAt(path) ==
                Cardinality({n \in 1..Len(resolved) :
                                resolved[n].path = path})
            rooted == {n \in 1..Len(config.endpoints) :
                        /\ config.endpoints[n].kind = "object"
                        /\ extractBooleanProperty(config.endpoints[n],
                                                  "root")}
        IN /\ \A tag \in Tags :
                EndpointsRouted(prefix \o <<"/", tag>>)
                    = ResolvedAt(<<"/", tag>>)
           /\ EndpointsRouted(prefix \o <<"/", "health">>)
                    = ResolvedAt(<<"/", "health">>) - Cardinality(rooted)
           /\ EndpointsRouted(<<"/", "health">>) = Cardinality(rooted)

\* the file that holds the initializer of a declared name
DefiningFile(name) ==
    IF project[name].kind = "variable" THEN project[name].file
    ELSE project[name].exported[1].file

\* the routes generated for the collection or the global declared as Users
IsUsersRoute(h) ==
    \/ h.source = "collection" /\ h.collectionSlug = <<"users">>
    \/ /\ h.source = "global"
       /\ h.path = <<"/", "api", "/", "globals", "/", "users">>

\* C18: every route of a collection or global whose literal is written in
\* another file than the config cites the file that holds the literal
C18_RoutesCiteDefiningFile ==
    (ppc = "parsed" /\ DeclaredLiteral("Users") # <<>>
        /\ DefiningFile("Users") # ConfigFile) =>
        \A j \in 1..Len(payloadHandlers) :
            IsUsersRoute(payloadHandlers[j]) =>
                payloadHandlers[j].file
                    = DropFirst(DefiningFile("Users"), Len(RootDir) + 1)

\* the expression is an object literal under as, satisfies and parentheses
RECURSIVE IsTypeWrappedLiteral(_)
IsTypeWrappedLiteral(expr) ==
    CASE expr.kind = "object" -> TRUE
      [] expr.kind \in {"as", "satisfies", "paren"} ->
            IsTypeWrappedLiteral(expr.expression)
      [] OTHER -> FALSE

RefersToUsers(elements) ==
    \E n \in 1..Len(elements) : elements[n] = Identifier("Users")

GlobalsRouted(tag) ==
    Cardinality({j \in 1..Len(payloadHandlers) :
        /\ payloadHandlers[j].source = "global"
        /\ payloadHandlers[j].method = <<"GET">>
        /\ payloadHandlers[j].path = <<"/", "api", "/", "globals", "/", tag>>})

\* C19: a collection, global or endpoint identifier declared, in the config
\* file or in an imported one, with an object literal under any nesting of
\* as, satisfies and parentheses is resolved to the literal and extracted
C19_UnwrapEveryReference ==
    (/\ ppc = "parsed"
     /\ InitializerOf(project["Users"]) # <<>>
     /\ IsTypeWrappedLiteral(InitializerOf(project["Users"])[1])) =>
        /\ RefersToUsers(config.collections) => CollectionsRouted("users") > 0
        /\ RefersToUsers(config.globals) => GlobalsRouted("users") > 0
        /\ (/\ config.collections # <<>>
            /\ IsObjectLiteral(config.collections[1])
            /\ RefersToUsers(config.collections[1].endpoints))
                => EndpointsRouted(<<"/", "api", "/", "posts", "/", "users">>)
                        > 0

(***************************************************************************)
(* Framework detection: properties                                         *)
(***************************************************************************)
\* C12: hasTRPC and hasPayloadCMS settle with a boolean and never reject; a
\* manifest that cannot be read or parsed counts as not detected for that
\* manifest only, so tRPC is detected exactly when some folder's manifest
\* names the dependency
C12_DetectionNeverFatal ==
    dpc # "idle" =>
        /\ ~detected.threw
        /\ detected.value \in BOOLEAN
        /\ dpc = "hasTRPC" =>
                detected.value =
                    (/\ workspaceFolders # Undefined
                     /\ \E n \in 1..Len(workspaceFolders) :
                            workspaceFolders[n]
                                \in {"dependency", "devDependency"})
        /\ dpc = "hasPayloadCMS" =>
                detected.value = (~probe.threw /\ probe.value)

\* tRPC was detected in a folder that comes after one with a broken manifest
C12_Witness ==
    /\ dpc = "hasTRPC"
    /\ Len(workspaceFolders) > 1
    /\ workspaceFolders[1] \in {"unreadable", "malformed", "null"}
    /\ detected = Resolved(TRUE)

(***************************************************************************)
(* Extraction entry points: failures                                       *)
(***************************************************************************)
NoLoadableConfig ==
    \A k \in DOMAIN world.configFiles : world.configFiles[k] # "loadable"

StepFails ==
    \/ world.findTsConfig = "rejects"
    \/ world.newProject = "throws"
    \/ world.configObject = "throws"

NothingReadable ==
    \/ world.findFiles = "rejects"
    \/ \A n \in DOMAIN world.routerFiles : ~world.routerFiles[n].readable

\* C13: parsePayloadCMSRoutes and parseTRPCRouters never reject; the first
\* resolves to [] when no root directory is given, no config file can be
\* loaded, the config file holds no config object, or a step fails; the
\* second resolves to [] when the file search fails, finds no router file,
\* or no router file can be read.
C13_EntryPointsNeverThrow ==
    /\ epc # "idle" => ~settled.threw
    /\ (epc = "payload"
            /\ (\/ ~world.rootDirGiven
                \/ NoLoadableConfig
                \/ world.configObject = "none"
                \/ StepFails))
        => settled.value = <<>>
    /\ (epc = "trpc" /\ NothingReadable) => settled.value = <<>>

C13_Witness ==
    /\ epc = "payload"
    /\ world.rootDirExists
    /\ world.configFiles[1] = "loadable"
    /\ world.configObject = "posts"
    /\ world.newProject = "throws"
    /\ settled = Resolved(<<>>)

\* C14: when the root directory that is given does not exist,
\* parsePayloadCMSRoutes rejects instead of resolving to a list.
C14_MissingRootDirFails ==
    (epc = "payload" /\ world.rootDirGiven /\ ~world.rootDirExists)
        => settled.threw

(***************************************************************************)
(* tRPC router detection: the two signals                                  *)
(***************************************************************************)
\* the name of the called expression: an identifier's text, a property
\* access's property name
HasCalledName == callee.kind \in {"identifier", "propertyAccess"}

CalledName == IF callee.kind = "identifier" THEN callee.text ELSE callee.name

\* C15: a call is reported as a router factory call exactly when the name of
\* the called expression is in the factory-name set or matches the router
\* identifier pattern.
C15_TwoSignals ==
    rdpc = "checked" =>
        (isFactoryCall <=>
            /\ HasCalledName
            /\ \/ CalledName \in detectionConfig.factoryNames
               \/ Test(detectionConfig.identifierPattern, CalledName))

(***************************************************************************)
(* Endpoint-id tag: round trip                                             *)
(***************************************************************************)
CarriesNoTag == extractEndpointIdFromHttpDocument(httpText) = Null

\* the tag line is the line directly after the first title line
TagFollowsTitle ==
    LET titleIndex == TitleIndex(SplitLines(httpText, <<>>))
        lines == SplitLines(ensuredText, <<>>)
    IN titleIndex # 0 =>
        /\ titleIndex + 1 <= Len(lines)
        /\ IsWatchApiTitle(lines[titleIndex])
        /\ lines[titleIndex + 1] = TagLine(endpointId)

IsToken(id) == id # <<>> /\ \A k \in DOMAIN id : ~IsWhiteSpace(id[k])

\* C20 as stated: for every document without a tag and every endpoint id,
\* extracting from the ensured document gives the id back, and the tag line
\* directly follows the title line when there is one.
C20_RoundTripAnyId ==
    (hpc = "ensured" /\ CarriesNoTag) =>
        /\ roundTrip = endpointId
        /\ TagFollowsTitle

\* C20, amended: the same for every endpoint id that is not empty and holds
\* no white space.
C20_RoundTripToken ==
    (hpc = "ensured" /\ CarriesNoTag /\ IsToken(endpointId)) =>
        /\ roundTrip = endpointId
        /\ TagFollowsTitle

C20_Witness ==
    /\ hpc = "ensured"
    /\ CarriesNoTag
    /\ endpointId = <<"e", "1">>
    /\ TitleIndex(SplitLines(httpText, <<>>)) = 2
    /\ Len(SplitLines(ensuredText, <<>>)) = Len(SplitLines(httpText, <<>>)) + 2
    /\ roundTrip = endpointId

(***************************************************************************)
(* Endpoint-id tag: no double insert                                       *)
(***************************************************************************)
\* where the tags of a document start: the "#" of every match of
\* ENDPOINT_ID_RE
TagPositions(text) ==
    {SkipWhiteSpace(text, p) :
        p \in {q \in 1..Len(text) : MatchEndpointIdAt(text, q, TRUE) # Null}}

C22_AppRouterFilesLieUnderApp ==
    (fpc # "path" /\ detection.isAppRouter) =>
        /\ Includes(FilePath(rootDir, dirs, fileName),
                    <<"/">> \o S_app \o <<"/">>)
        /\ fileName \in {S_route_ts, S_route_js}

(***************************************************************************)
(* AuthService: token refresh                                              *)
(***************************************************************************)
\* the trpc.refreshToken requests that wait for their answer
InFlight == {c \in Calls : calls[c].pc \in {"request", "retry"}}

\* the calls that went past the isRefreshing check
Refreshing == {c \in Calls : calls[c].pc \in InRefresh}

\* C23: at most one refresh request is in flight, and at most one call is
\* past the isRefreshing check: a call that finds the flag raised waits and
\* starts nothing.
C23_RefreshMutuallyExclusive ==
    /\ Cardinality(InFlight) <= 1
    /\ Cardinality(Refreshing) <= 1
    /\ Refreshing # {} => isRefreshing

\* the re-entrant call: the refresh request was answered 401, the handler
\* runs refreshAccessToken again and waits, a third call waits too
C23_Witness ==
    \E c, d, e \in Calls :
        /\ calls[c].pc = "handler"
        /\ calls[d] = [pc |-> "waiting", parent |-> c]
        /\ calls[e] = [pc |-> "waiting", parent |-> 0]

\* C24: between two successful refreshes the expiry warning is shown at
\* most once.
C24_WarningShownOnce == warnings <= 1

\* a second refresh fails after the warning was shown
C24_Witness ==
    /\ warnings = 1
    /\ hasShownExpiryNotification
    /\ \E c \in Calls : calls[c].pc = "expired"

\* C28: when handleAuthCallback shows the success message, the access token
\* of the callback is stored and the user info is set.
C28_SuccessMeansSignedIn ==
    message.text = "Successfully signed in to WatchAPI"
        => message.isAuthenticated

(***************************************************************************)
(* ApiClient: 401 handling                                                 *)
(***************************************************************************)
\* what C25 says of one request, but for the token of the retry
BoundedRetry(q) ==
    /\ q.handlerCalls <= 1
    /\ q.sends <= 2
    /\ q.sends = 2 => q.refreshed = "true"
    /\ (q.pc = "returned" /\ q.refreshed = "false")
            => q.outcome = "first" /\ q.status = 401 /\ q.sends = 1
    /\ (q.pc = "returned" /\ q.sends = 2) => q.outcome = "retry"

Indices(a, b) == [n \in 1..(b - a + 1) |-> a + n - 1]

\* the first line of the run of preamble lines that ends right before line i
RECURSIVE RunStart(_, _)
RunStart(lines, i) ==
    IF i > 1 /\ IsPreamble(lines[i - 1]) THEN RunStart(lines, i - 1) ELSE i

\* the last line before the next separator or request line after line i
RECURSIVE RunStop(_, _)
RunStop(lines, i) ==
    IF i < Len(lines) /\ ~IsNextRequest(lines[i + 1])
    THEN RunStop(lines, i + 1)
    ELSE i

\* C27: the block is, in file order, the run of blank, comment and variable
\* lines right before the request line, the request line once, and the
\* lines after it up to the next separator or request line.
C27_RequestBlock ==
    lpc = "extracted" =>
        block = Indices(RunStart(docLines, startIndex),
                        RunStop(docLines, startIndex))

(***************************************************************************)
(* CacheService: delete and clear                                          *)
(***************************************************************************)
\* C29: a key deleted or cleared and not set since is not in the memory
\* cache, and a get of it returns undefined, whether the update of the
\* workspace storage was stored or rejected.
C29_DeleteIsEffective ==
    /\ got.key \in deleted => got.value = "<undefined>"
    /\ \A k \in deleted : memoryCache[k] = NoEntry

(***************************************************************************)
(* registerFrameworkUploads: uploadApis                                    *)
(***************************************************************************)
\* C30: every createEndpoint of a run is for a key that the target
\* collection did not hold when it was pulled and that the run had not
\* created in that collection before; a second upload of the same list
\* creates no endpoint and no collection.
C30_NoDuplicateEndpoint ==
    /\ \A i \in 1..Len(createdEndpoints) :
          /\ createdEndpoints[i].key \notin
                 pulledCollections[createdEndpoints[i].id].endpoints
          /\ \A j \in 1..(i - 1) : createdEndpoints[j] # createdEndpoints[i]
    /\ run = 2 => createdEndpoints = <<>> /\ createdCollections = <<>>

\* a second upload came to its end after a first one that created a
\* collection and an endpoint from a list that holds a key twice
C30_Witness ==
    /\ run = 2
    /\ upc = "done"
    /\ firstCreated > 0
    /\ Len(apis) > firstCreated
    /\ Len(server) > 0

Next ==
    \/ NextNormalizer
    \/ NextFileRouter
    \/ NextTrpc
    \/ NextPayload
    \/ NextResolver
    \/ NextDetection
    \/ NextEntry
    \/ NextRouterDetection
    \/ NextHttp
    \/ NextAuth
    \/ NextClient
    \/ NextLens
    \/ NextCache
    \/ NextUpload

Spec == Init /\ [][Next]_vars

SpecNormalizer == Init /\ [][NextNormalizer]_vars

SpecFileRouter == Init /\ [][NextFileRouter]_vars

SpecTrpc == Init /\ [][NextTrpc]_vars

SpecPayload == Init /\ [][NextPayload]_vars

SpecResolver == Init /\ [][NextResolver]_vars

SpecDetection == Init /\ [][NextDetection]_vars

SpecEntry == Init /\ [][NextEntry]_vars

SpecRouterDetection == Init /\ [][NextRouterDetection]_vars

SpecHttp == Init /\ [][NextHttp]_vars

SpecAuth == Init /\ [][NextAuth]_vars

SpecClient == Init /\ [][NextClient]_vars

SpecLens == Init /\ [][NextLens]_vars

SpecCache == Init /\ [][NextCache]_vars

SpecUpload == Init /\ [][NextUpload]_vars
====
